---- MODULE Spec2Model ----
(***************************************************************************)
(* State-machine model of the rubeho_mapper_tz offline pipeline:            *)
(*   notebooks/01_explore_districts.py  (program regions, adjacency,        *)
(*                                       survey classification, matching,   *)
(*                                       ward flagging, export)             *)
(*   notebooks/02_create_grids.py       (fishnet grid, study-area filter,   *)
(*                                       centroid join)                     *)
(*   labeling_app/app.py                (annotation sessions sharing one    *)
(*                                       spreadsheet)                       *)
(*                                                                         *)
(* Strings are sequences of one-character strings, so that strip() and      *)
(* upper() are computed character by character.  Polygons are finite sets   *)
(* of closed unit squares <<x, y>> (lower-left corner) of an integer        *)
(* lattice; two such polygons intersect iff they share a lattice point,     *)
(* and the distance between two of them is attained at lattice corners.     *)
(***************************************************************************)
EXTENDS Integers, Sequences, FiniteSets, TLC

\* ------------------------------------------------------------------ bounds
MaxRows == 2        \* survey rows drawn for df_program
MaxBuffer == 1      \* buffer_distance ranges over 0..MaxBuffer (lattice units)
MaxLen == 2         \* ward strings of the key-normalisation specification
MaxDistLen == 1     \* district strings of the key-normalisation specification
PlaneMax == 9       \* lattice points 0..PlaneMax in both directions
MaxOrigin == 1      \* minx, miny of the fishnet specification range over 0..MaxOrigin
MaxExtent == 4      \* its rectangle widths and heights range over 1..MaxExtent
MaxCell == 3        \* its cell sizes range over 1..MaxCell
MaxSheet == 2       \* rows the annotation worksheet may hold

\* --------------------------------------------------------------- constants
TARGET_CRS == "TARGET_CRS"
WEB_CRS == "WEB_CRS"
SOURCE_CRS == "SOURCE_CRS"
GRID_SIZE_LARGE == 2

NaN == "NaN"

\* ----------------------------------------------------------------- strings
\* str.upper() on one character
UpperChar(c) ==
    CASE c = "a" -> "A"
      [] c = "b" -> "B"
      [] c = "d" -> "D"
      [] c = "e" -> "E"
      [] OTHER -> c

\* variant of UpperStr that leaves the case alone
UpperStrIdentity(s) == s

\* str.upper()
UpperStr(s) == [i \in 1..Len(s) |-> UpperChar(s[i])]

\* str.strip(): drop leading and trailing whitespace
Strip(s) ==
    LET keep == {i \in 1..Len(s) : s[i] # " "}
    IN  IF keep = {} THEN <<>>
        ELSE SubSeq(s, CHOOSE i \in keep : \A j \in keep : i <= j,
                       CHOOSE i \in keep : \A j \in keep : i >= j)

\* f"{str(row['Ward']).strip().upper()}||{str(row['District']).strip().upper()}"
LocationKey(row) ==
    UpperStr(Strip(row.Ward)) \o <<"|", "|">> \o UpperStr(Strip(row.District))

\* f"{str(row['ward_name']).strip().upper()}||{str(row['dist_name']).strip().upper()}"
ShapefileKey(w) ==
    UpperStr(Strip(w.ward_name)) \o <<"|", "|">> \o UpperStr(Strip(w.dist_name))

\* ward_name.astype(str).str.strip().str.upper() + '||' + dist_name...str.upper()
ward_district_key(w) ==
    (UpperStr(Strip(w.ward_name)) \o <<"|", "|">>) \o UpperStr(Strip(w.dist_name))

\* ---------------------------------------------------------------- geometry
Block(x, y, w, h) == {<<i, j>> : i \in x..(x + w - 1), j \in y..(y + h - 1)}

\* lattice points of a polygon given as a set of closed unit squares
Pts(poly) == UNION {{<<s[1] + dx, s[2] + dy>> : dx \in 0..1, dy \in 0..1} : s \in poly}

Plane == (0..PlaneMax) \X (0..PlaneMax)

\* coordinate origin of a reference system; to_crs moves geometry between them
CrsOrigin(crs) == IF crs = TARGET_CRS THEN <<1, 1>> ELSE <<0, 0>>

to_crs(poly, from, to) ==
    {<<s[1] + CrsOrigin(to)[1] - CrsOrigin(from)[1],
       s[2] + CrsOrigin(to)[2] - CrsOrigin(from)[2]>> : s \in poly}

Dist2(p, q) == (p[1] - q[1]) * (p[1] - q[1]) + (p[2] - q[2]) * (p[2] - q[2])

\* variant of Buffer that leaves out the points at distance exactly d
BufferShrunk(pts, d) == {p \in Plane : \E q \in pts : Dist2(p, q) < d * d}

\* geometry.buffer(d): every lattice point within distance d of the geometry
Buffer(pts, d) == {p \in Plane : \E q \in pts : Dist2(p, q) <= d * d}

\* geometry.intersects(other) on closed point sets (touching counts)
Intersects(P, Q) == P \cap Q # {}

SeqToSet(s) == {s[i] : i \in 1..Len(s)}

\* rows of a frame selected by a boolean mask, in order
RECURSIVE SelectSeq2(_, _)
SelectSeq2(s, idx) ==
    IF s = <<>> THEN <<>>
    ELSE IF Len(s) \in idx
         THEN Append(SelectSeq2(SubSeq(s, 1, Len(s) - 1), idx), s[Len(s)])
         ELSE SelectSeq2(SubSeq(s, 1, Len(s) - 1), idx)

\* DataFrame.drop_duplicates(): keep the first occurrence of each row
RECURSIVE drop_duplicates(_)
drop_duplicates(s) ==
    IF s = <<>> THEN <<>>
    ELSE LET front == drop_duplicates(SubSeq(s, 1, Len(s) - 1))
         IN  IF s[Len(s)] \in SeqToSet(front) THEN front ELSE Append(front, s[Len(s)])

\* ------------------------------------------------------------------- state
VARIABLES
    pc,                      \* position of the pipeline scripts
    gdf_wards,               \* ward boundary dataset (sequence of ward rows)
    df_program,              \* survey spreadsheet (sequence of rows)
    buffer_distance,         \* find_adjacent_regions' buffer_distance
    program_regions,
    adjacent_regions,
    treatment_rows,          \* row positions selected by the treatment mask
    control_rows,            \* row positions selected by the control mask
    treatment_locations,
    control_locations,
    treatment_ward_district,
    control_ward_district,
    shapefile_ward_district,
    treatment_matches,
    treatment_missing,
    control_matches,
    control_missing,
    gdf_relevant,            \* flagged wards (01) / wards read back (02)
    wards_file,              \* relevant_wards_with_flags.geojson
    gdf_utm,
    study_area_utm,
    study_bounds,
    parent_grid_utm,
    parent_grid_filtered,
    grid_with_admin,
    shp_file,                \* ward shapefile on disk (Null when absent)
    excel_file,              \* survey spreadsheet on disk (Null when absent)
    bound,                   \* names 01_explore_districts has bound so far
    error,                   \* the exception that ended the run (Null when none)
    region_plan_file,        \* region_coverage_plan.json
    kin,                     \* inputs of the key-normalisation specification
    kout,                    \* keys built from kin
    sheet,                   \* worksheet "Sheet1": the stored annotation rows
    sessions,                \* st.session_state and call position of each UI session
    parquet_file,            \* grid_500m_parent.parquet
    metadata_file,           \* grid_metadata.json
    regrid,                  \* result of calling create_fishnet_grid once more
    processed_dir,           \* the grid files load_grid_data looks for
    loaded                   \* outcome of load_grid_data

pipeVars ==
    <<pc, gdf_wards, df_program, buffer_distance, program_regions, adjacent_regions,
      treatment_rows, control_rows, treatment_locations, control_locations,
      treatment_ward_district, control_ward_district, shapefile_ward_district,
      treatment_matches, treatment_missing, control_matches, control_missing,
      gdf_relevant, wards_file, gdf_utm, study_area_utm, study_bounds,
      parent_grid_utm, parent_grid_filtered, grid_with_admin>>

ioVars == <<shp_file, excel_file, bound, error, region_plan_file>>

keyVars == <<kin, kout>>

appVars == <<sheet, sessions>>

outVars == <<parquet_file, metadata_file>>

fnVars == <<regrid, processed_dir, loaded>>

vars == <<pipeVars, ioVars, keyVars, appVars, outVars, fnVars>>

\* nullable column values
Null == <<>>
Some(v) == <<v>>

\* ------------------------------------------------------------------ inputs
Ward(name, dist, reg, geom) ==
    [ward_name |-> name, dist_name |-> dist, reg_name |-> reg, geometry |-> geom]

Row(w, d, arr, redd) == [Ward |-> w, District |-> d, ARR |-> arr, REDD |-> redd]

LayoutEdge == <<Block(0, 0, 2, 2), Block(2, 0, 2, 2), Block(5, 0, 2, 2)>>
LayoutCorner == <<Block(0, 0, 2, 2), Block(2, 2, 2, 2), Block(4, 5, 2, 2)>>
LayoutDiagonal == <<Block(0, 3, 2, 3), Block(3, 0, 3, 2), Block(3, 3, 3, 3)>>
LayoutOverlap == <<Block(0, 0, 2, 2), Block(0, 0, 2, 2), Block(3, 0, 2, 2)>>
LayoutFar == <<Block(0, 0, 2, 2), Block(4, 0, 2, 2), Block(0, 4, 2, 2)>>
Layouts == {LayoutEdge, LayoutCorner, LayoutDiagonal, LayoutOverlap, LayoutFar}

RegionNames == {"R1", "R2", "R3"}
IndicatorValues == {"Yes", "No", NaN, ""}

\* boundary datasets and surveys that vary the names
NameBoundaries ==
    {<<Ward(<<"A">>, <<"d">>, "R1", LayoutEdge[1]),
       Ward(n2, d2, r2, LayoutEdge[2]),
       Ward(<<"b">>, <<"e">>, "R2", LayoutEdge[3])>> :
        n2 \in {<<"A">>, <<"b">>}, d2 \in {<<"d">>, <<"e">>}, r2 \in {"R1", "R2"}}

NameRows ==
    {Row(w, d, ind[1], ind[2]) :
        w \in {<<" ", "a">>, <<"b">>},
        d \in {<<"d">>, <<"D">>, <<"e">>},
        ind \in {<<"Yes", "No">>, <<"No", NaN>>}}

\* surveys that vary the indicator columns
IndicatorRows ==
    {Row(<<"a">>, <<"d">>, arr, redd) : arr \in IndicatorValues, redd \in IndicatorValues}

\* boundary datasets that vary the geometry and the regions
GeoBoundaries ==
    {<<Ward(<<"A">>, <<"d">>, r1, lay[1]),
       Ward(<<"b">>, <<"d">>, r2, lay[2]),
       Ward(<<"b">>, <<"e">>, r3, lay[3])>> :
        lay \in Layouts, r1 \in RegionNames, r2 \in RegionNames, r3 \in RegionNames}

GeoSurveys ==
    {<<Row(<<"a">>, <<"d">>, "Yes", "No")>>,
     <<Row(<<"a">>, <<"d">>, "Yes", "No"), Row(<<"b">>, <<"e">>, "No", "No")>>,
     <<Row(<<"a">>, <<"d">>, "No", "Yes"), Row(<<"b">>, <<"d">>, "Yes", NaN),
       Row(<<"B">>, <<"d">>, "No", NaN)>>}

\* two wards for a whole run of both scripts: ward A is a square two grid cells
\* wide in region R1, ward b of region R2 shares a boundary edge with it
ScenarioNeighbours ==
    {Block(2 * GRID_SIZE_LARGE, 0, GRID_SIZE_LARGE, 2 * GRID_SIZE_LARGE),
     Block(2 * GRID_SIZE_LARGE, 0, GRID_SIZE_LARGE, 4 * GRID_SIZE_LARGE),
     Block(0, 2 * GRID_SIZE_LARGE, 2 * GRID_SIZE_LARGE, GRID_SIZE_LARGE),
     Block(2 * GRID_SIZE_LARGE, 0, 2 * GRID_SIZE_LARGE, 1)}

ScenarioBoundaries ==
    {<<Ward(<<"A">>, <<"d">>, "R1", Block(0, 0, 2 * GRID_SIZE_LARGE, 2 * GRID_SIZE_LARGE)),
       Ward(<<"b">>, <<"e">>, "R2", g)>> : g \in ScenarioNeighbours}

ScenarioSurveys ==
    {<<Row(<<"a">>, <<"d">>, "Yes", "No")>>,
     <<Row(<<" ", "a">>, <<"d">>, "No", "Yes"), Row(<<"b">>, <<"d">>, "No", NaN)>>}

SeqsUpTo(S, n) == UNION {[1..k -> S] : k \in 0..n}

\* the annotation tool is not running
AppIdle == sheet = <<>> /\ sessions = <<>>

\* no function of the repository is being called on its own
FnIdle == regrid = Null /\ processed_dir = Null /\ loaded = Null

\* 02_create_grids has written neither the grid nor its metadata
NoGridOutput == parquet_file = Null /\ metadata_file = Null

\* nothing computed yet: the interpreter has bound no name and written no file
Blank ==
    /\ gdf_wards = <<>>
    /\ df_program = <<>>
    /\ bound = {}
    /\ error = Null
    /\ program_regions = {}
    /\ adjacent_regions = {}
    /\ treatment_rows = {}
    /\ control_rows = {}
    /\ treatment_locations = <<>>
    /\ control_locations = <<>>
    /\ treatment_ward_district = {}
    /\ control_ward_district = {}
    /\ shapefile_ward_district = {}
    /\ treatment_matches = {}
    /\ treatment_missing = {}
    /\ control_matches = {}
    /\ control_missing = {}
    /\ gdf_relevant = <<>>
    /\ gdf_utm = <<>>
    /\ study_area_utm = {}
    /\ study_bounds = Null
    /\ parent_grid_utm = <<>>
    /\ parent_grid_filtered = <<>>
    /\ grid_with_admin = <<>>
    /\ NoGridOutput

\* 01_explore_districts.py is started in an empty processed-data directory
PipeStart ==
    /\ pc = "load_shapefile"
    /\ Blank
    /\ wards_file = Null
    /\ region_plan_file = Null

KeyIdle == kin = Null /\ kout = Null

\* a flagged ward file and a coverage plan left by an earlier run of 01
SampleWardsFile ==
    <<[ward_name |-> <<"A">>, dist_name |-> <<"d">>, reg_name |-> "R1",
       geometry |-> Block(0, 0, 2, 2), is_program_region |-> TRUE,
       is_adjacent_region |-> FALSE, is_treatment |-> TRUE,
       is_program_control |-> FALSE, program_location_type |-> "treatment"],
      [ward_name |-> <<"b">>, dist_name |-> <<"e">>, reg_name |-> "R2",
       geometry |-> Block(2, 0, 3, 2), is_program_region |-> FALSE,
       is_adjacent_region |-> TRUE, is_treatment |-> FALSE,
       is_program_control |-> FALSE, program_location_type |-> "none"]>>

SamplePlan ==
    [program_regions |-> {"R1"},
     adjacent_regions |-> {"R2"},
     all_target_regions |-> {"R1", "R2"},
     program_locations |->
        [total_treatment_locations |-> 1,
         total_control_locations |-> 0,
         matched_treatment_wards |-> 1,
         matched_control_wards |-> 0,
         treatment_match_rate |-> <<1, 1>>,
         control_match_rate |-> <<0, 1>>,
         missing_treatment_wards |-> {},
         missing_control_wards |-> {}]]

\* 02_create_grids.py is started on its own; either input may be absent
GridStart ==
    /\ pc = "plan_load"
    /\ Blank
    /\ shp_file = Null
    /\ excel_file = Null
    /\ buffer_distance = 1
    /\ wards_file \in {Null, Some(SampleWardsFile)}
    /\ region_plan_file \in {Null, Some(SamplePlan)}

Init ==
    /\ KeyIdle
    /\ FnIdle
    /\ AppIdle
    /\ \/ /\ PipeStart
          /\ shp_file \in {Some(w) : w \in NameBoundaries}
          /\ excel_file \in {Some(df) : df \in SeqsUpTo(NameRows, MaxRows)}
          /\ buffer_distance = 1
       \/ /\ PipeStart
          /\ shp_file = Some(<<Ward(<<"A">>, <<"d">>, "R1", LayoutEdge[1])>>)
          /\ excel_file \in {Some(df) : df \in SeqsUpTo(IndicatorRows, MaxRows)}
          /\ buffer_distance = 1
       \/ /\ PipeStart
          /\ shp_file \in {Some(w) : w \in GeoBoundaries}
          /\ excel_file \in {Some(df) : df \in GeoSurveys}
          /\ buffer_distance \in 0..MaxBuffer
       \/ /\ PipeStart
          /\ shp_file \in {Null, Some(<<Ward(<<"A">>, <<"d">>, "R1", LayoutEdge[1])>>)}
          /\ excel_file \in {Null, Some(<<Row(<<"a">>, <<"d">>, "Yes", "No")>>)}
          /\ shp_file = Null \/ excel_file = Null
          /\ buffer_distance = 1
       \/ /\ PipeStart
          /\ shp_file \in {Some(w) : w \in ScenarioBoundaries}
          /\ excel_file \in {Some(df) : df \in ScenarioSurveys}
          /\ buffer_distance \in 0..MaxBuffer
       \/ GridStart

\* an exception that ends the run: where it was raised, its type, and the file
\* path its message names ("" when it names none)
Raised(stage, kind, path) == Some([stage |-> stage, kind |-> kind, path |-> path])

\* ------------------------------------------- 01_explore_districts: loading
\* shp_files = list(shapefile_dir.glob("*.shp")); if shp_files: gpd.read_file(...)
\* else (or when read_file raises): a message is printed and the script goes on
LoadShapefile ==
    /\ pc = "load_shapefile"
    /\ IF shp_file # Null
       THEN gdf_wards' = shp_file[1] /\ bound' = bound \cup {"gdf_wards"}
       ELSE UNCHANGED <<gdf_wards, bound>>
    /\ pc' = "load_excel"
    /\ UNCHANGED <<df_program, buffer_distance, program_regions, adjacent_regions,
                   treatment_rows, control_rows, treatment_locations, control_locations,
                   treatment_ward_district, control_ward_district,
                   shapefile_ward_district, treatment_matches, treatment_missing,
                   control_matches, control_missing, gdf_relevant, wards_file, gdf_utm,
                   study_area_utm, study_bounds, parent_grid_utm, parent_grid_filtered,
                   grid_with_admin, shp_file, excel_file, error, region_plan_file,
                   keyVars, appVars, outVars, fnVars>>

\* if excel_file.exists(): pd.read_excel(...) else: a message is printed; then
\* programme_districts = df_program.District.unique() raises NameError when
\* df_program was never bound
LoadExcel ==
    /\ pc = "load_excel"
    /\ IF excel_file # Null
       THEN /\ df_program' = excel_file[1]
            /\ bound' = bound \cup {"df_program"}
            /\ pc' = "regions"
            /\ UNCHANGED error
       ELSE /\ error' = Raised("load_excel", "NameError", "")
            /\ pc' = "aborted"
            /\ UNCHANGED <<df_program, bound>>
    /\ UNCHANGED <<gdf_wards, buffer_distance, program_regions, adjacent_regions,
                   treatment_rows, control_rows, treatment_locations, control_locations,
                   treatment_ward_district, control_ward_district,
                   shapefile_ward_district, treatment_matches, treatment_missing,
                   control_matches, control_missing, gdf_relevant, wards_file, gdf_utm,
                   study_area_utm, study_bounds, parent_grid_utm, parent_grid_filtered,
                   grid_with_admin, shp_file, excel_file, region_plan_file,
                   keyVars, appVars, outVars, fnVars>>

\* ----------------------------------------- 01_explore_districts: regions
\* df_program.District.unique()
programme_districts(df) == {df[i].District : i \in 1..Len(df)}

\* gdf_wards.groupby('dist_name')['reg_name'].first().to_dict()
district_region_mapping(wards) ==
    [d \in {wards[i].dist_name : i \in 1..Len(wards)} |->
        wards[CHOOSE i \in 1..Len(wards) :
                /\ wards[i].dist_name = d
                /\ \A j \in 1..Len(wards) : wards[j].dist_name = d => i <= j].reg_name]

\* variant of ComputeProgramRegions that takes the region of the last (not the
\* first) ward of each district
ProgramRegionsLastOfDistrict(wards, df) ==
    {wards[i].reg_name : i \in {j \in 1..Len(wards) :
        /\ wards[j].dist_name \in programme_districts(df)
        /\ \A k \in 1..Len(wards) : wards[k].dist_name = wards[j].dist_name => k <= j}}

\* the loop that fills program_regions
ComputeProgramRegions(wards, df) ==
    LET mapping == district_region_mapping(wards)
    IN  {mapping[d] : d \in programme_districts(df) \cap DOMAIN mapping}

\* gdf_wards.groupby(...) raises NameError when gdf_wards was never bound
ProgramRegions ==
    /\ pc = "regions"
    /\ IF "gdf_wards" \in bound
       THEN /\ program_regions' = ComputeProgramRegions(gdf_wards, df_program)
            /\ pc' = "adjacent"
            /\ UNCHANGED error
       ELSE /\ error' = Raised("regions", "NameError", "")
            /\ pc' = "aborted"
            /\ UNCHANGED program_regions
    /\ UNCHANGED <<gdf_wards, df_program, buffer_distance, adjacent_regions,
                   treatment_rows, control_rows, treatment_locations, control_locations,
                   treatment_ward_district, control_ward_district,
                   shapefile_ward_district, treatment_matches, treatment_missing,
                   control_matches, control_missing, gdf_relevant, wards_file, gdf_utm,
                   study_area_utm, study_bounds, parent_grid_utm, parent_grid_filtered,
                   grid_with_admin, shp_file, excel_file, bound, region_plan_file,
                   keyVars, appVars, outVars, fnVars>>

\* --------------------------------------- 01_explore_districts: adjacency
\* gdf_wards.dissolve(by='reg_name').reset_index(): one row per region
dissolve(wards) ==
    {[reg_name |-> r,
      geometry |-> UNION {wards[i].geometry : i \in {j \in 1..Len(wards) :
                                                       wards[j].reg_name = r}}] :
        r \in {wards[i].reg_name : i \in 1..Len(wards)}}

\* target_utm.geometry.buffer(buffer_distance).unary_union
target_buffered(target_utm, d) == UNION {Buffer(Pts(t.geometry), d) : t \in target_utm}

\* variant of find_adjacent_regions without the "already a program region" skip
find_adjacent_regions_keep_targets(target_regions, all_regions_gdf, d) ==
    LET frame_utm(rows) ==
            {[reg_name |-> r.reg_name,
              geometry |-> to_crs(r.geometry, SOURCE_CRS, TARGET_CRS)] : r \in rows}
        target_gdf == {r \in all_regions_gdf : r.reg_name \in target_regions}
        buffered == target_buffered(frame_utm(target_gdf), d)
    IN  {r.reg_name : r \in {x \in frame_utm(all_regions_gdf) :
                                Intersects(Pts(x.geometry), buffered)}}

find_adjacent_regions(target_regions, all_regions_gdf, d) ==
    LET frame_utm(rows) ==
            {[reg_name |-> r.reg_name,
              geometry |-> to_crs(r.geometry, SOURCE_CRS, TARGET_CRS)] : r \in rows}
        target_gdf == {r \in all_regions_gdf : r.reg_name \in target_regions}
        target_utm == frame_utm(target_gdf)
        all_regions_utm == frame_utm(all_regions_gdf)
        buffered == target_buffered(target_utm, d)
    IN  {r.reg_name : r \in {x \in all_regions_utm :
                                /\ x.reg_name \notin target_regions
                                /\ Intersects(Pts(x.geometry), buffered)}}

FindAdjacent ==
    /\ pc = "adjacent"
    /\ adjacent_regions' =
          find_adjacent_regions(program_regions, dissolve(gdf_wards), buffer_distance)
    /\ pc' = "classify"
    /\ UNCHANGED <<gdf_wards, df_program, buffer_distance, program_regions,
                   treatment_rows, control_rows, treatment_locations, control_locations,
                   treatment_ward_district, control_ward_district,
                   shapefile_ward_district, treatment_matches, treatment_missing,
                   control_matches, control_missing, gdf_relevant, wards_file, gdf_utm,
                   study_area_utm, study_bounds, parent_grid_utm, parent_grid_filtered,
                   grid_with_admin, keyVars, appVars, outVars, fnVars, ioVars>>

\* ----------------------------------- 01_explore_districts: classification
\* (df_program['ARR'] == 'Yes') | (df_program['REDD'] == 'Yes')
treatment_mask(row) == row.ARR = "Yes" \/ row.REDD = "Yes"

\* variant of control_mask that joins the comparisons with | instead of &
control_mask_either(row) == row.ARR # "Yes" \/ row.REDD # "Yes"

\* (df_program['ARR'] != 'Yes') & (df_program['REDD'] != 'Yes')
control_mask(row) == row.ARR # "Yes" /\ row.REDD # "Yes"

WardDistrict(rows) == [i \in 1..Len(rows) |-> [Ward |-> rows[i].Ward,
                                                District |-> rows[i].District]]

Classify ==
    /\ pc = "classify"
    /\ treatment_rows' = {i \in 1..Len(df_program) : treatment_mask(df_program[i])}
    /\ control_rows' = {i \in 1..Len(df_program) : control_mask(df_program[i])}
    /\ treatment_locations' =
          drop_duplicates(WardDistrict(SelectSeq2(df_program, treatment_rows')))
    /\ control_locations' = drop_duplicates(SelectSeq2(df_program, control_rows'))
    /\ pc' = "match"
    /\ UNCHANGED <<gdf_wards, df_program, buffer_distance, program_regions,
                   adjacent_regions, treatment_ward_district, control_ward_district,
                   shapefile_ward_district, treatment_matches, treatment_missing,
                   control_matches, control_missing, gdf_relevant, wards_file, gdf_utm,
                   study_area_utm, study_bounds, parent_grid_utm, parent_grid_filtered,
                   grid_with_admin, keyVars, appVars, outVars, fnVars, ioVars>>

\* ----------------------------------------- 01_explore_districts: matching
\* gdf_wards[reg_name.isin(program_regions) & dist_name.isin(treatment districts)]
programme_wards_gdf(wards, regions, locations) ==
    SelectSeq2(wards, {i \in 1..Len(wards) :
        /\ wards[i].reg_name \in regions
        /\ wards[i].dist_name \in {locations[k].District : k \in 1..Len(locations)}})

create_ward_district_sets(locations_df) ==
    {LocationKey(locations_df[i]) : i \in 1..Len(locations_df)}

\* the loop over programme_wards_gdf.iterrows()
ShapefileKeys(wards) == {ShapefileKey(wards[i]) : i \in 1..Len(wards)}

\* variant of Missing with the operands of the difference swapped
MissingFromOther(keys, shapefile_keys) == shapefile_keys \ keys

\* treatment_ward_district - shapefile_ward_district
Missing(keys, shapefile_keys) == keys \ shapefile_keys

Match ==
    /\ pc = "match"
    /\ treatment_ward_district' = create_ward_district_sets(treatment_locations)
    /\ control_ward_district' = create_ward_district_sets(control_locations)
    /\ shapefile_ward_district' =
          ShapefileKeys(programme_wards_gdf(gdf_wards, program_regions,
                                            treatment_locations))
    /\ treatment_matches' = treatment_ward_district' \cap shapefile_ward_district'
    /\ treatment_missing' = Missing(treatment_ward_district', shapefile_ward_district')
    /\ control_matches' = control_ward_district' \cap shapefile_ward_district'
    /\ control_missing' = Missing(control_ward_district', shapefile_ward_district')
    /\ pc' = "flag"
    /\ UNCHANGED <<gdf_wards, df_program, buffer_distance, program_regions,
                   adjacent_regions, treatment_rows, control_rows, treatment_locations,
                   control_locations, gdf_relevant, wards_file, gdf_utm,
                   study_area_utm, study_bounds, parent_grid_utm, parent_grid_filtered,
                   grid_with_admin, keyVars, appVars, outVars, fnVars, ioVars>>

\* ----------------------------------------- 01_explore_districts: flagging
\* the flag columns of one ward of gdf_relevant, assigned in the script's order
FlagWard(w, prog, adj, t_matches, c_matches) ==
    LET init == [ward_name |-> w.ward_name, dist_name |-> w.dist_name,
                 reg_name |-> w.reg_name, geometry |-> w.geometry,
                 is_program_region |-> w.reg_name \in prog,
                 is_adjacent_region |-> w.reg_name \in adj,
                 is_treatment |-> FALSE,
                 is_program_control |-> FALSE,
                 program_location_type |-> "none"]
        key == ward_district_key(w)
        t == IF key \in t_matches
             THEN [init EXCEPT !.is_treatment = TRUE,
                               !.program_location_type = "treatment"]
             ELSE init
    IN  IF key \in c_matches
        THEN [t EXCEPT !.is_program_control = TRUE,
                       !.program_location_type = "program_control"]
        ELSE t

Flag ==
    /\ pc = "flag"
    /\ LET relevant_regions == program_regions \cup adjacent_regions
           rel == SelectSeq2(gdf_wards, {i \in 1..Len(gdf_wards) :
                                            gdf_wards[i].reg_name \in relevant_regions})
       IN  gdf_relevant' =
              [i \in 1..Len(rel) |->
                  FlagWard(rel[i], program_regions, adjacent_regions,
                           treatment_matches, control_matches)]
    /\ pc' = "export"
    /\ UNCHANGED <<gdf_wards, df_program, buffer_distance, program_regions,
                   adjacent_regions, treatment_rows, control_rows, treatment_locations,
                   control_locations, treatment_ward_district, control_ward_district,
                   shapefile_ward_district, treatment_matches, treatment_missing,
                   control_matches, control_missing, wards_file, gdf_utm,
                   study_area_utm, study_bounds, parent_grid_utm, parent_grid_filtered,
                   grid_with_admin, keyVars, appVars, outVars, fnVars, ioVars>>

\* gdf_relevant.to_file(output_file)
Export ==
    /\ pc = "export"
    /\ wards_file' = Some(gdf_relevant)
    /\ pc' = "plan"
    /\ UNCHANGED <<gdf_wards, df_program, buffer_distance, program_regions,
                   adjacent_regions, treatment_rows, control_rows, treatment_locations,
                   control_locations, treatment_ward_district, control_ward_district,
                   shapefile_ward_district, treatment_matches, treatment_missing,
                   control_matches, control_missing, gdf_relevant, gdf_utm,
                   study_area_utm, study_bounds, parent_grid_utm, parent_grid_filtered,
                   grid_with_admin, keyVars, appVars, outVars, fnVars, ioVars>>

\* ------------------------------------ 01_explore_districts: coverage plan
\* variant of MatchRate without the zero-length guard
MatchRateUnguarded(matches, locations) == <<Cardinality(matches), Len(locations)>>

\* len(matches) / len(locations) if len(locations) > 0 else 0, kept as the
\* fraction <<numerator, denominator>>; the literal 0 is <<0, 1>>
MatchRate(matches, locations) ==
    IF Len(locations) > 0 THEN <<Cardinality(matches), Len(locations)>> ELSE <<0, 1>>

\* pair.replace('||', ' in '): every non-overlapping "||", left to right
RECURSIVE replace_sep(_)
replace_sep(s) ==
    IF Len(s) < 2 THEN s
    ELSE IF s[1] = "|" /\ s[2] = "|"
         THEN <<" ", "i", "n", " ">> \o replace_sep(SubSeq(s, 3, Len(s)))
         ELSE <<s[1]>> \o replace_sep(Tail(s))

\* variant of missing_wards that lists the keys as they are
missing_wards_unformatted(missing) == missing

\* [pair.replace('||', ' in ') for pair in missing] if missing else []
missing_wards(missing) == {replace_sep(pair) : pair \in missing}

\* the sections of region_info built from the regions and from the matcher
RegionInfo ==
    [program_regions |-> program_regions,
     adjacent_regions |-> adjacent_regions,
     all_target_regions |-> program_regions \cup adjacent_regions,
     program_locations |->
        [total_treatment_locations |-> Len(treatment_locations),
         total_control_locations |-> Len(control_locations),
         matched_treatment_wards |-> Cardinality(treatment_matches),
         matched_control_wards |-> Cardinality(control_matches),
         treatment_match_rate |-> MatchRate(treatment_matches, treatment_locations),
         control_match_rate |-> MatchRate(control_matches, control_locations),
         missing_treatment_wards |-> missing_wards(treatment_missing),
         missing_control_wards |-> missing_wards(control_missing)]]

\* json.dump(region_info, f, ...) into region_coverage_plan.json; the script ends
\* here and 02_create_grids.py is run next
WritePlan ==
    /\ pc = "plan"
    /\ region_plan_file' = Some(RegionInfo)
    /\ pc' = "plan_load"
    /\ UNCHANGED <<gdf_wards, df_program, buffer_distance, program_regions,
                   adjacent_regions, treatment_rows, control_rows, treatment_locations,
                   control_locations, treatment_ward_district, control_ward_district,
                   shapefile_ward_district, treatment_matches, treatment_missing,
                   control_matches, control_missing, gdf_relevant, wards_file, gdf_utm,
                   study_area_utm, study_bounds, parent_grid_utm, parent_grid_filtered,
                   grid_with_admin, shp_file, excel_file, bound, error,
                   keyVars, appVars, outVars, fnVars>>

\* --------------------------------------------- 02_create_grids: loading
\* with open(region_plan_file, 'r') as f: region_plan = json.load(f); open()
\* raises FileNotFoundError, whose message holds the path, when the file is absent
LoadPlan ==
    /\ pc = "plan_load"
    /\ IF region_plan_file # Null
       THEN pc' = "grid_load" /\ UNCHANGED error
       ELSE /\ error' = Raised("plan_load", "FileNotFoundError",
                               "region_coverage_plan.json")
            /\ pc' = "aborted"
    /\ UNCHANGED <<gdf_wards, df_program, buffer_distance, program_regions,
                   adjacent_regions, treatment_rows, control_rows, treatment_locations,
                   control_locations, treatment_ward_district, control_ward_district,
                   shapefile_ward_district, treatment_matches, treatment_missing,
                   control_matches, control_missing, gdf_relevant, wards_file, gdf_utm,
                   study_area_utm, study_bounds, parent_grid_utm, parent_grid_filtered,
                   grid_with_admin, shp_file, excel_file, bound, region_plan_file,
                   keyVars, appVars, outVars, fnVars>>

\* ------------------------------------------- 02_create_grids: study area
Min(S) == CHOOSE x \in S : \A y \in S : x <= y
Max(S) == CHOOSE x \in S : \A y \in S : x >= y

\* geometry.bounds: (minx, miny, maxx, maxy)
Bounds(pts) ==
    <<Min({p[1] : p \in pts}), Min({p[2] : p \in pts}),
      Max({p[1] : p \in pts}), Max({p[2] : p \in pts})>>

\* variant of CeilDiv that rounds down
FloorDiv(a, b) == a \div b

\* int(np.ceil(a / b)) for a >= 0, b > 0
CeilDiv(a, b) == (a + b - 1) \div b

\* if relevant_wards_file.exists(): gpd.read_file(...) else: raise
\* FileNotFoundError(f"Required file not found: {relevant_wards_file}"); then
\* to_crs, union_all, bounds, grid dimensions; an empty ward set has NaN bounds
\* and int(np.ceil(nan)) raises ValueError
LoadGrid ==
    /\ pc = "grid_load"
    /\ IF wards_file = Null
       THEN /\ error' = Raised("grid_load", "FileNotFoundError",
                               "relevant_wards_with_flags.geojson")
            /\ pc' = "aborted"
            /\ UNCHANGED <<gdf_relevant, gdf_utm, study_area_utm, study_bounds>>
       ELSE /\ gdf_relevant' = wards_file[1]
            /\ gdf_utm' = [i \in 1..Len(gdf_relevant') |->
                              [gdf_relevant'[i] EXCEPT
                                  !.geometry = to_crs(@, SOURCE_CRS, TARGET_CRS)]]
            /\ study_area_utm' = UNION {gdf_utm'[i].geometry : i \in 1..Len(gdf_utm')}
            /\ IF study_area_utm' = {}
               THEN /\ study_bounds' = Null
                    /\ error' = Raised("grid_load", "ValueError", "")
                    /\ pc' = "aborted"
               ELSE /\ study_bounds' = Some(Bounds(Pts(study_area_utm')))
                    /\ pc' = "fishnet"
                    /\ UNCHANGED error
    /\ UNCHANGED <<gdf_wards, df_program, buffer_distance, program_regions,
                   adjacent_regions, treatment_rows, control_rows, treatment_locations,
                   control_locations, treatment_ward_district, control_ward_district,
                   shapefile_ward_district, treatment_matches, treatment_missing,
                   control_matches, control_missing, wards_file,
                   parent_grid_utm, parent_grid_filtered, grid_with_admin,
                   shp_file, excel_file, bound, region_plan_file, keyVars, appVars,
                   outVars, fnVars>>

\* ------------------------------------------------ 02_create_grids: fishnet
\* str(n) for 0 <= n <= 9
Digit(n) ==
    CASE n = 0 -> "0" [] n = 1 -> "1" [] n = 2 -> "2" [] n = 3 -> "3" [] n = 4 -> "4"
      [] n = 5 -> "5" [] n = 6 -> "6" [] n = 7 -> "7" [] n = 8 -> "8" [] n = 9 -> "9"

\* the decimal digits of n >= 0
RECURSIVE Decimal(_)
Decimal(n) == IF n < 10 THEN <<Digit(n)>> ELSE Decimal(n \div 10) \o <<Digit(n % 10)>>

\* format spec 04d: at least four characters, padded with zeros on the left
Format04d(n) ==
    LET d == Decimal(n)
    IN  IF Len(d) >= 4 THEN d ELSE [k \in 1..(4 - Len(d)) |-> "0"] \o d

\* variant of GridId that formats the row index twice
GridIdRowOnly(i, j) == <<"G", "_">> \o Format04d(j) \o <<"_">> \o Format04d(j)

\* f"G_{i:04d}_{j:04d}"
GridId(i, j) == <<"G", "_">> \o Format04d(i) \o <<"_">> \o Format04d(j)

\* variant of create_fishnet_grid whose cells advance by one unit less than their
\* size
create_fishnet_grid_overlapping(bounds, cell_size) ==
    LET minx == bounds[1]
        miny == bounds[2]
        cols == CeilDiv(bounds[3] - minx, cell_size)
        rows == CeilDiv(bounds[4] - miny, cell_size)
    IN  [p \in 1..(cols * rows) |->
            LET i == (p - 1) \div rows
                j == (p - 1) % rows
            IN  [index |-> p - 1,
                 grid_id |-> GridId(i, j),
                 col |-> i,
                 row |-> j,
                 cell_size |-> cell_size,
                 geometry |-> Block(minx + i * (cell_size - 1),
                                    miny + j * (cell_size - 1),
                                    cell_size, cell_size)]]

create_fishnet_grid(bounds, cell_size) ==
    LET minx == bounds[1]
        miny == bounds[2]
        maxx == bounds[3]
        maxy == bounds[4]
        cols == CeilDiv(maxx - minx, cell_size)
        rows == CeilDiv(maxy - miny, cell_size)
    IN  [p \in 1..(cols * rows) |->
            LET i == (p - 1) \div rows
                j == (p - 1) % rows
            IN  [index |-> p - 1,
                 grid_id |-> GridId(i, j),
                 col |-> i,
                 row |-> j,
                 cell_size |-> cell_size,
                 geometry |-> Block(minx + i * cell_size, miny + j * cell_size,
                                    cell_size, cell_size)]]

Fishnet ==
    /\ pc = "fishnet"
    /\ parent_grid_utm' = create_fishnet_grid(study_bounds[1], GRID_SIZE_LARGE)
    /\ pc' = "filter"
    /\ UNCHANGED <<gdf_wards, df_program, buffer_distance, program_regions,
                   adjacent_regions, treatment_rows, control_rows, treatment_locations,
                   control_locations, treatment_ward_district, control_ward_district,
                   shapefile_ward_district, treatment_matches, treatment_missing,
                   control_matches, control_missing, gdf_relevant, wards_file, gdf_utm,
                   study_area_utm, study_bounds, parent_grid_filtered,
                   grid_with_admin, keyVars, appVars, outVars, fnVars, ioVars>>

\* variant of study_area_filter that keeps a cell only when it shares area with
\* the study area
study_area_filter_overlap(grid, area) ==
    SelectSeq2(grid, {p \in 1..Len(grid) : area \cap grid[p].geometry # {}})

\* parent_grid_utm[geometry.apply(study_area_prepared.intersects)].copy():
\* the kept rows keep their index labels
study_area_filter(grid, area) ==
    SelectSeq2(grid, {p \in 1..Len(grid) : Intersects(Pts(area), Pts(grid[p].geometry))})

Filter ==
    /\ pc = "filter"
    /\ parent_grid_filtered' = study_area_filter(parent_grid_utm, study_area_utm)
    /\ pc' = "join"
    /\ UNCHANGED <<gdf_wards, df_program, buffer_distance, program_regions,
                   adjacent_regions, treatment_rows, control_rows, treatment_locations,
                   control_locations, treatment_ward_district, control_ward_district,
                   shapefile_ward_district, treatment_matches, treatment_missing,
                   control_matches, control_missing, gdf_relevant, wards_file, gdf_utm,
                   study_area_utm, study_bounds, parent_grid_utm,
                   grid_with_admin, keyVars, appVars, outVars, fnVars, ioVars>>

\* ------------------------------------------- 02_create_grids: attributes
\* geometry.centroid of a square cell
Centroid(geom) ==
    LET b == Bounds(Pts(geom))
    IN  <<(b[1] + b[3]) \div 2, (b[2] + b[4]) \div 2>>

\* predicate='within' for a lattice point: the point lies in the polygon's interior
Within(p, poly) == \A dx \in {-1, 0}, dy \in {-1, 0} : <<p[1] + dx, p[2] + dy>> \in poly

\* the rows gpd.sjoin(..., how='left', predicate='within') returns for the left row
\* at position k, whose label after reset_index() is k - 1
JoinRowsFor(k, centroid, right) ==
    LET hits == SelectSeq2(right, {m \in 1..Len(right) :
                                      Within(centroid, right[m].geometry)})
    IN  IF hits = <<>>
        THEN <<[index |-> k - 1, ward_name |-> Null, dist_name |-> Null,
                reg_name |-> Null, is_treatment |-> Null,
                is_program_region |-> Null, is_adjacent_region |-> Null]>>
        ELSE [m \in 1..Len(hits) |->
                [index |-> k - 1,
                 ward_name |-> Some(hits[m].ward_name),
                 dist_name |-> Some(hits[m].dist_name),
                 reg_name |-> Some(hits[m].reg_name),
                 is_treatment |-> Some(hits[m].is_treatment),
                 is_program_region |-> Some(hits[m].is_program_region),
                 is_adjacent_region |-> Some(hits[m].is_adjacent_region)]]

RECURSIVE sjoin_left_within(_, _, _)
sjoin_left_within(left, right, k) ==
    IF k > Len(left) THEN <<>>
    ELSE JoinRowsFor(k, Centroid(left[k].geometry), right)
            \o sjoin_left_within(left, right, k + 1)

\* Series.fillna(False)
fillna_false(v) == IF v = Null THEN Some(FALSE) ELSE v

\* frame[col] = series: the series is aligned to the frame's index labels;
\* a label the series lacks gets NaN
Aligned(joined, cell, pos, col, fill) ==
    LET at == {r \in 1..Len(joined) : joined[r].index = cell.index}
    IN  IF at = {} THEN Null
        ELSE LET v == joined[CHOOSE r \in at : TRUE][col]
             IN  IF fill THEN fillna_false(v) ELSE v

\* a series whose index has duplicate labels cannot be reindexed
HasDuplicateLabels(joined) ==
    \E r1 \in 1..Len(joined), r2 \in 1..Len(joined) :
        r1 # r2 /\ joined[r1].index = joined[r2].index

Join ==
    /\ pc = "join"
    /\ grid_with_admin' = sjoin_left_within(parent_grid_filtered, gdf_utm, 1)
    /\ IF HasDuplicateLabels(grid_with_admin')
       THEN /\ error' = Raised("join", "ValueError", "")
            /\ pc' = "aborted"
            /\ UNCHANGED parent_grid_filtered
       ELSE /\ pc' = "joined"
            /\ UNCHANGED error
            /\ parent_grid_filtered' =
                  [p \in 1..Len(parent_grid_filtered) |->
                     LET c == parent_grid_filtered[p]
                         g == grid_with_admin'
                     IN  [index |-> c.index, grid_id |-> c.grid_id, col |-> c.col,
                          row |-> c.row, cell_size |-> c.cell_size,
                          geometry |-> c.geometry,
                          ward_name |-> Aligned(g, c, p, "ward_name", FALSE),
                          district |-> Aligned(g, c, p, "dist_name", FALSE),
                          region |-> Aligned(g, c, p, "reg_name", FALSE),
                          is_treatment_ward |-> Aligned(g, c, p, "is_treatment", TRUE),
                          is_program_region |->
                              Aligned(g, c, p, "is_program_region", TRUE),
                          is_adjacent_region |->
                              Aligned(g, c, p, "is_adjacent_region", TRUE)]]
    /\ UNCHANGED <<gdf_wards, df_program, buffer_distance, program_regions,
                   adjacent_regions, treatment_rows, control_rows, treatment_locations,
                   control_locations, treatment_ward_district, control_ward_district,
                   shapefile_ward_district, treatment_matches, treatment_missing,
                   control_matches, control_missing, gdf_relevant, wards_file, gdf_utm,
                   study_area_utm, study_bounds, parent_grid_utm,
                   shp_file, excel_file, bound, region_plan_file, keyVars, appVars,
                   outVars, fnVars>>

\* --------------------------------------------- 02_create_grids: outputs
\* parent_grid_filtered.to_crs(WEB_CRS)
parent_grid_web ==
    [p \in 1..Len(parent_grid_filtered) |->
        [parent_grid_filtered[p] EXCEPT !.geometry = to_crs(@, TARGET_CRS, WEB_CRS)]]

\* parent_grid_web.to_parquet(parquet_file)
SaveParquet ==
    /\ pc = "joined"
    /\ parquet_file' = Some(parent_grid_web)
    /\ pc' = "metadata"
    /\ UNCHANGED <<gdf_wards, df_program, buffer_distance, program_regions,
                   adjacent_regions, treatment_rows, control_rows, treatment_locations,
                   control_locations, treatment_ward_district, control_ward_district,
                   shapefile_ward_district, treatment_matches, treatment_missing,
                   control_matches, control_missing, gdf_relevant, wards_file, gdf_utm,
                   study_area_utm, study_bounds, parent_grid_utm, parent_grid_filtered,
                   grid_with_admin, metadata_file, ioVars, keyVars, appVars, fnVars>>

\* int(frame[col].sum()): the True cells of a flag column; NaN cells are skipped
flag_sum(frame, col) == Cardinality({p \in 1..Len(frame) : frame[p][col] = Some(TRUE)})

\* variant of grid_metadata that summarises the unfiltered fishnet
grid_metadata_unfiltered(frame) ==
    [grid_info |->
        [cell_size_meters |-> GRID_SIZE_LARGE,
         total_cells |-> Len(parent_grid_utm),
         crs_utm |-> TARGET_CRS,
         crs_web |-> WEB_CRS],
     coverage |->
        [cells_in_treatment_wards |-> flag_sum(frame, "is_treatment_ward"),
         cells_in_program_regions |-> flag_sum(frame, "is_program_region"),
         cells_in_adjacent_regions |-> flag_sum(frame, "is_adjacent_region")],
     bounds |-> Bounds(Pts(UNION {frame[p].geometry : p \in 1..Len(frame)}))]

\* grid_metadata (its creation_date is left out)
grid_metadata(frame) ==
    [grid_info |->
        [cell_size_meters |-> GRID_SIZE_LARGE,
         total_cells |-> Len(frame),
         crs_utm |-> TARGET_CRS,
         crs_web |-> WEB_CRS],
     coverage |->
        [cells_in_treatment_wards |-> flag_sum(frame, "is_treatment_ward"),
         cells_in_program_regions |-> flag_sum(frame, "is_program_region"),
         cells_in_adjacent_regions |-> flag_sum(frame, "is_adjacent_region")],
     bounds |-> Bounds(Pts(UNION {frame[p].geometry : p \in 1..Len(frame)}))]

\* json.dump(grid_metadata, f, indent=2) into grid_metadata.json
WriteMetadata ==
    /\ pc = "metadata"
    /\ metadata_file' = Some(grid_metadata(parent_grid_web))
    /\ pc' = "done"
    /\ UNCHANGED <<gdf_wards, df_program, buffer_distance, program_regions,
                   adjacent_regions, treatment_rows, control_rows, treatment_locations,
                   control_locations, treatment_ward_district, control_ward_district,
                   shapefile_ward_district, treatment_matches, treatment_missing,
                   control_matches, control_missing, gdf_relevant, wards_file, gdf_utm,
                   study_area_utm, study_bounds, parent_grid_utm, parent_grid_filtered,
                   grid_with_admin, parquet_file, ioVars, keyVars, appVars, fnVars>>

\* ----------------------------------------------------------- specification
Next ==
    \/ LoadShapefile
    \/ LoadExcel
    \/ ProgramRegions
    \/ FindAdjacent
    \/ Classify
    \/ Match
    \/ Flag
    \/ Export
    \/ WritePlan
    \/ LoadPlan
    \/ LoadGrid
    \/ Fishnet
    \/ Filter
    \/ Join
    \/ SaveParquet
    \/ WriteMetadata

Spec == Init /\ [][Next]_vars

\* ------------------------------------- key normalisation as a pure function
WardChars == {"a", "A", " "}
DistChars == {"d", "D", " "}

KeyOff ==
    /\ pc = "off"
    /\ gdf_wards = <<>>
    /\ df_program = <<>>
    /\ buffer_distance = 1
    /\ program_regions = {}
    /\ adjacent_regions = {}
    /\ treatment_rows = {}
    /\ control_rows = {}
    /\ treatment_locations = <<>>
    /\ control_locations = <<>>
    /\ treatment_ward_district = {}
    /\ control_ward_district = {}
    /\ shapefile_ward_district = {}
    /\ treatment_matches = {}
    /\ treatment_missing = {}
    /\ control_matches = {}
    /\ control_missing = {}
    /\ gdf_relevant = <<>>
    /\ wards_file = Null
    /\ gdf_utm = <<>>
    /\ study_area_utm = {}
    /\ study_bounds = Null
    /\ parent_grid_utm = <<>>
    /\ parent_grid_filtered = <<>>
    /\ grid_with_admin = <<>>
    /\ shp_file = Null
    /\ excel_file = Null
    /\ bound = {}
    /\ error = Null
    /\ region_plan_file = Null
    /\ NoGridOutput

KeyInit ==
    /\ KeyOff
    /\ AppIdle
    /\ FnIdle
    /\ kin \in [w1 : SeqsUpTo(WardChars, MaxLen), d1 : SeqsUpTo(DistChars, MaxDistLen),
                w2 : SeqsUpTo(WardChars, MaxLen), d2 : SeqsUpTo(DistChars, MaxDistLen)]
    /\ kout = Null

\* the three places that build the composite key, applied to the same strings, and
\* the key of the already normalised strings
BuildKeys ==
    /\ kin # Null
    /\ kout = Null
    /\ kout' =
          LET r1 == Row(kin.w1, kin.d1, NaN, NaN)
              r2 == Row(kin.w2, kin.d2, NaN, NaN)
              g1 == Ward(kin.w1, kin.d1, "R1", {})
              n1 == Row(UpperStr(Strip(kin.w1)), UpperStr(Strip(kin.d1)), NaN, NaN)
          IN  Some([survey1 |-> LocationKey(r1),
                    survey2 |-> LocationKey(r2),
                    shapefile1 |-> ShapefileKey(g1),
                    flag1 |-> ward_district_key(g1),
                    again_parts |-> LocationKey(n1),
                    again_whole |-> UpperStr(Strip(LocationKey(r1)))])
    /\ UNCHANGED <<pipeVars, ioVars, appVars, outVars, fnVars, kin>>

KeyNext == BuildKeys

SpecKey == KeyInit /\ [][KeyNext]_vars

\* -------------------------------------- create_fishnet_grid as a function
\* bounding rectangles (minx, miny, maxx, maxy) with positive width and height
GridBounds ==
    {<<x, y, x + w, y + h>> :
        x \in 0..MaxOrigin, y \in 0..MaxOrigin, w \in 1..MaxExtent, h \in 1..MaxExtent}

GridInit ==
    /\ pc = "off"
    /\ gdf_wards = <<>>
    /\ df_program = <<>>
    /\ buffer_distance = 1
    /\ program_regions = {}
    /\ adjacent_regions = {}
    /\ treatment_rows = {}
    /\ control_rows = {}
    /\ treatment_locations = <<>>
    /\ control_locations = <<>>
    /\ treatment_ward_district = {}
    /\ control_ward_district = {}
    /\ shapefile_ward_district = {}
    /\ treatment_matches = {}
    /\ treatment_missing = {}
    /\ control_matches = {}
    /\ control_missing = {}
    /\ gdf_relevant = <<>>
    /\ wards_file = Null
    /\ gdf_utm = <<>>
    /\ study_area_utm = {}
    /\ study_bounds \in {Some(b) : b \in GridBounds}
    /\ parent_grid_utm = <<>>
    /\ parent_grid_filtered = <<>>
    /\ grid_with_admin = <<>>
    /\ shp_file = Null
    /\ excel_file = Null
    /\ bound = {}
    /\ error = Null
    /\ region_plan_file = Null
    /\ NoGridOutput
    /\ KeyIdle
    /\ regrid = Null
    /\ processed_dir = Null
    /\ loaded = Null
    /\ AppIdle

\* one call create_fishnet_grid(bounds, cell_size, crs)
GridCall ==
    /\ pc = "off"
    /\ study_bounds # Null
    /\ parent_grid_utm = <<>>
    /\ \E cell_size \in 1..MaxCell :
          parent_grid_utm' = create_fishnet_grid(study_bounds[1], cell_size)
    /\ UNCHANGED <<pc, gdf_wards, df_program, buffer_distance, program_regions,
                   adjacent_regions, treatment_rows, control_rows, treatment_locations,
                   control_locations, treatment_ward_district, control_ward_district,
                   shapefile_ward_district, treatment_matches, treatment_missing,
                   control_matches, control_missing, gdf_relevant, wards_file, gdf_utm,
                   study_area_utm, study_bounds, parent_grid_filtered,
                   grid_with_admin, ioVars, keyVars, appVars, outVars, fnVars>>

\* a second call with the bounds and the cell size of the first
GridCallAgain ==
    /\ pc = "off"
    /\ study_bounds # Null
    /\ parent_grid_utm # <<>>
    /\ regrid = Null
    /\ regrid' = Some(create_fishnet_grid(study_bounds[1], parent_grid_utm[1].cell_size))
    /\ UNCHANGED <<pipeVars, ioVars, keyVars, appVars, outVars, processed_dir, loaded>>

GridNext == GridCall \/ GridCallAgain

SpecGrid == GridInit /\ [][GridNext]_vars

\* ------------------------------------------------ labeling_app: annotations
Sessions == {"s1", "s2"}
AllWards == "All Treatment Wards"
WardOptions == {AllWards, "w1"}

\* filter_villages_for_ward: the reference villages of the selected ward
filter_villages_for_ward(selected_ward) ==
    IF selected_ward = AllWards THEN {} ELSE {"v1", "v2"}

\* json.dumps(geometry) and its inverse json.loads
json_dumps(geometry) == <<"json", geometry>>
json_loads(text) == text[2]

\* the record built from a drawing, and the row written for it
Annotation(village, ward) ==
    [village_name |-> village, ward_name |-> ward, geometry |-> "polygon"]
SheetRow(ann) ==
    [village_name |-> ann.village_name, ward_name |-> ann.ward_name,
     geometry |-> json_dumps(ann.geometry)]

\* load_annotations_from_sheet when conn.read succeeds: rows whose geometry cell
\* is empty are skipped, the others are parsed
RECURSIVE load_annotations(_)
load_annotations(df) ==
    IF df = <<>> THEN <<>>
    ELSE LET front == load_annotations(SubSeq(df, 1, Len(df) - 1))
             row == df[Len(df)]
         IN  IF row.geometry = <<>> THEN front
             ELSE Append(front, [village_name |-> row.village_name,
                                 ward_name |-> row.ward_name,
                                 geometry |-> json_loads(row.geometry)])

\* any(ann.get('village_name') == ... and ann.get('ward_name') == ... for ann in ...)
already_mapped(annotations, pending) ==
    \E i \in 1..Len(annotations) :
        /\ annotations[i].village_name = pending.village_name
        /\ annotations[i].ward_name = pending.ward_name

\* variant of without_key that drops only the first record with the key
without_first_of_key(rows, village, ward) ==
    LET hits == {i \in 1..Len(rows) :
                    rows[i].village_name = village /\ rows[i].ward_name = ward}
    IN  IF hits = {} THEN rows
        ELSE SelectSeq2(rows, (1..Len(rows)) \ {CHOOSE i \in hits : \A j \in hits : i <= j})

\* df[~((df['village_name'] == village_name) & (df['ward_name'] == ward_name))]
without_key(rows, village, ward) ==
    SelectSeq2(rows, {i \in 1..Len(rows) :
        ~(rows[i].village_name = village /\ rows[i].ward_name = ward)})

\* what save_annotation_to_sheet (a pair) or delete_annotation_from_sheet (a
\* boolean, message "") returned to the handler that ran last
Returned(fn, ok, message) == Some([fn |-> fn, ok |-> ok, message |-> message])

\* variant of save_raised that also drops the pending annotation
save_raised_dropping_pending(session) ==
    [session EXCEPT !.call = "idle", !.df = <<>>, !.pending = Null,
                    !.result = Returned("save_annotation_to_sheet", FALSE, "Error")]

\* save_annotation_to_sheet when conn.read or conn.update raises: the except
\* branch returns (False, f"Error: {str(e)}") and the handler shows the message
save_raised(session) ==
    [session EXCEPT !.call = "idle", !.df = <<>>,
                    !.result = Returned("save_annotation_to_sheet", FALSE, "Error")]

\* appended is history, not part of st.session_state: when it is kept
\* (Some(keys)), the keys of the records the session's Save has appended to its
\* annotation list so far
NewSession ==
    [started |-> FALSE, sheets_available |-> FALSE, annotations |-> <<>>,
     pending |-> Null, call |-> "idle", df |-> <<>>, target |-> Null,
     result |-> Null, appended |-> Null]

\* the history after st.session_state.annotations.append(record)
noted(appended, record) ==
    IF appended = Null THEN Null
    ELSE Some(appended[1] \cup {<<record.village_name, record.ward_name>>})

\* the pipeline scripts are not running
PipeOff ==
    /\ pc = "off"
    /\ Blank
    /\ buffer_distance = 1
    /\ wards_file = Null
    /\ region_plan_file = Null
    /\ shp_file = Null
    /\ excel_file = Null

\* worksheets the tool may find: empty, one annotation, or one row whose geometry
\* cell is empty
InitialSheets ==
    {<<>>,
     <<SheetRow(Annotation("v1", "w1"))>>,
     <<[village_name |-> "v1", ward_name |-> "w1", geometry |-> <<>>]>>}

AppInit ==
    /\ PipeOff
    /\ KeyIdle
    /\ FnIdle
    /\ sheet \in InitialSheets
    /\ sessions = [s \in Sessions |-> NewSession]

\* session state initialisation: conn = init_gsheets() may fail (offline mode),
\* and load_annotations_from_sheet returns [] when conn.read raises
StartSession(s) ==
    /\ ~sessions[s].started
    /\ \E available \in BOOLEAN, read_ok \in BOOLEAN :
          sessions' = [sessions EXCEPT
              ![s].started = TRUE,
              ![s].sheets_available = available,
              ![s].annotations = IF available /\ read_ok
                                 THEN load_annotations(sheet) ELSE <<>>]
    /\ UNCHANGED <<sheet, pipeVars, ioVars, keyVars, outVars, fnVars>>

\* a polygon is drawn: pending_annotation is set when a village is selected
Draw(s) ==
    /\ sessions[s].started
    /\ sessions[s].call = "idle"
    /\ \E selected_ward \in WardOptions :
          \E village_name \in
                IF filter_villages_for_ward(selected_ward) = {} THEN {Null}
                ELSE {Some(v) : v \in filter_villages_for_ward(selected_ward)} :
             IF village_name # Null
             THEN sessions' = [sessions EXCEPT
                     ![s].pending = Some(Annotation(village_name[1], selected_ward)),
                     ![s].result = Null]
             ELSE sessions' = [sessions EXCEPT ![s].result = Null]
    /\ UNCHANGED <<sheet, pipeVars, ioVars, keyVars, outVars, fnVars>>

\* "Clear Pending" (offered when already mapped) and "Discard" (otherwise)
DropPending(s) ==
    /\ sessions[s].started
    /\ sessions[s].call = "idle"
    /\ sessions[s].pending # Null
    /\ sessions' = [sessions EXCEPT ![s].pending = Null, ![s].result = Null]
    /\ UNCHANGED <<sheet, pipeVars, ioVars, keyVars, outVars, fnVars>>

\* "Save to Database": offline the annotation is appended to the session list;
\* online save_annotation_to_sheet starts with conn.read, which may raise
SaveClick(s) ==
    /\ sessions[s].started
    /\ sessions[s].call = "idle"
    /\ sessions[s].pending # Null
    /\ ~already_mapped(sessions[s].annotations, sessions[s].pending[1])
    /\ Len(sheet) < MaxSheet
    /\ IF sessions[s].sheets_available
       THEN \E read_ok \in BOOLEAN :
               IF read_ok
               THEN sessions' = [sessions EXCEPT
                       ![s].call = "save", ![s].df = sheet, ![s].result = Null]
               ELSE sessions' = [sessions EXCEPT ![s] = save_raised(@)]
       ELSE sessions' = [sessions EXCEPT
               ![s].annotations = Append(@, sessions[s].pending[1]),
               ![s].appended = noted(@, sessions[s].pending[1]),
               ![s].pending = Null,
               ![s].result = Null]
    /\ UNCHANGED <<sheet, pipeVars, ioVars, keyVars, outVars, fnVars>>

\* save_annotation_to_sheet after the read: conn.update(df + new_row), then the
\* session list is appended to and the pending annotation is deleted; when
\* conn.update raises, (False, message) is returned and nothing changes
SaveUpdate(s) ==
    /\ sessions[s].call = "save"
    /\ \E update_ok \in BOOLEAN :
          IF update_ok
          THEN /\ sheet' = Append(sessions[s].df, SheetRow(sessions[s].pending[1]))
               /\ sessions' = [sessions EXCEPT
                     ![s].annotations = Append(@, sessions[s].pending[1]),
                     ![s].appended = noted(@, sessions[s].pending[1]),
                     ![s].pending = Null,
                     ![s].call = "idle",
                     ![s].df = <<>>,
                     ![s].result = Returned("save_annotation_to_sheet", TRUE,
                                            "Saved successfully")]
          ELSE /\ sessions' = [sessions EXCEPT ![s] = save_raised(@)]
               /\ UNCHANGED sheet
    /\ UNCHANGED <<pipeVars, ioVars, keyVars, outVars, fnVars>>

\* "Refresh from Database"
Refresh(s) ==
    /\ sessions[s].started
    /\ sessions[s].call = "idle"
    /\ sessions[s].sheets_available
    /\ \E read_ok \in BOOLEAN :
          sessions' = [sessions EXCEPT
              ![s].annotations = IF read_ok THEN load_annotations(sheet) ELSE <<>>,
              ![s].result = Null]
    /\ UNCHANGED <<sheet, pipeVars, ioVars, keyVars, outVars, fnVars>>

\* delete_annotation_from_sheet(village_name, ward_name) for an annotation of the
\* session list, up to its conn.read
DeleteClick(s) ==
    /\ sessions[s].started
    /\ sessions[s].call = "idle"
    /\ sessions[s].sheets_available
    /\ \E i \in 1..Len(sessions[s].annotations), read_ok \in BOOLEAN :
          IF read_ok
          THEN sessions' = [sessions EXCEPT
                  ![s].call = "delete",
                  ![s].df = sheet,
                  ![s].target = Some(<<sessions[s].annotations[i].village_name,
                                       sessions[s].annotations[i].ward_name>>),
                  ![s].result = Null]
          ELSE sessions' = [sessions EXCEPT
                  ![s].result = Returned("delete_annotation_from_sheet", FALSE, "")]
    /\ UNCHANGED <<sheet, pipeVars, ioVars, keyVars, outVars, fnVars>>

\* delete_annotation_from_sheet after the read: the filtered frame is written
\* and the session list is filtered; when conn.update raises, False is returned
DeleteUpdate(s) ==
    /\ sessions[s].call = "delete"
    /\ LET village == sessions[s].target[1][1]
           ward == sessions[s].target[1][2]
       IN  \E update_ok \in BOOLEAN :
              IF update_ok
              THEN /\ sheet' = without_key(sessions[s].df, village, ward)
                   /\ sessions' = [sessions EXCEPT
                         ![s].annotations = without_key(@, village, ward),
                         ![s].call = "idle",
                         ![s].df = <<>>,
                         ![s].target = Null,
                         ![s].result = Returned("delete_annotation_from_sheet", TRUE, "")]
              ELSE /\ sessions' = [sessions EXCEPT
                         ![s].call = "idle",
                         ![s].df = <<>>,
                         ![s].target = Null,
                         ![s].result =
                             Returned("delete_annotation_from_sheet", FALSE, "")]
                   /\ UNCHANGED sheet
    /\ UNCHANGED <<pipeVars, ioVars, keyVars, outVars, fnVars>>

AppNext ==
    \E s \in Sessions :
        \/ StartSession(s)
        \/ Draw(s)
        \/ DropPending(s)
        \/ SaveClick(s)
        \/ SaveUpdate(s)
        \/ Refresh(s)
        \/ DeleteClick(s)
        \/ DeleteUpdate(s)

SpecApp == AppInit /\ [][AppNext]_vars

\* one session working alone on the worksheet
SoloNext ==
    \/ StartSession("s1")
    \/ Draw("s1")
    \/ DropPending("s1")
    \/ SaveClick("s1")
    \/ SaveUpdate("s1")
    \/ Refresh("s1")
    \/ DeleteClick("s1")
    \/ DeleteUpdate("s1")

\* one session working alone, with the history of its appends kept
SoloInit ==
    /\ PipeOff
    /\ KeyIdle
    /\ FnIdle
    /\ sheet \in InitialSheets
    /\ sessions = [s \in Sessions |-> [NewSession EXCEPT !.appended = Some({})]]

SpecSolo == SoloInit /\ [][SoloNext]_vars

\* ------------------------------------------------- DataLoader.load_grid_data
EPSG_4326 == "EPSG:4326"

\* potential_files, in the order the loop tries them
potential_files ==
    <<"grid_500m_parent.parquet", "grid_500m_parent.geojson", "grid_500m_parent.shp">>

GridShape == Block(1, 1, 2, 1)

\* what data_dir / "processed" may hold under one of the names: nothing (Null),
\* or a file that its reader cannot read, or one that holds a grid and declares
\* no CRS, EPSG:4326 or the metric CRS
GridFiles ==
    {Null} \cup {Some([readable |-> r, crs |-> c, geometry |-> GridShape]) :
                    r \in BOOLEAN, c \in {Null, Some(EPSG_4326), Some(TARGET_CRS)}}

\* _load_parquet_grid: pd.read_parquet, then gpd.GeoDataFrame(df, geometry='geometry');
\* the frame is rebuilt from a pandas frame and carries no CRS
load_parquet_grid(file) == [crs |-> Null, geometry |-> file.geometry]

\* gpd.read_file
read_file(file) == [crs |-> file.crs, geometry |-> file.geometry]

loader_func(k, file) == IF k = 1 THEN load_parquet_grid(file) ELSE read_file(file)

\* "Ensure correct CRS": set_crs labels a frame without CRS, to_crs reprojects
ensure_crs(gdf) ==
    IF gdf.crs = Null THEN [gdf EXCEPT !.crs = Some(EPSG_4326)]
    ELSE IF gdf.crs # Some(EPSG_4326)
         THEN [crs |-> Some(EPSG_4326),
               geometry |-> to_crs(gdf.geometry, gdf.crs[1], EPSG_4326)]
         ELSE gdf

\* variant of falls_through that goes on only when the file is absent
falls_through_absent_only(file) == file = Null

\* the loop goes on to the next name when grid_file.exists() is false or the
\* loader raises (except Exception: continue)
falls_through(file) == file = Null \/ ~file[1].readable

LoadOutcome(err, filename, gdf) == [error |-> err, filename |-> filename, gdf |-> gdf]

RECURSIVE load_from(_, _)
load_from(dir, k) ==
    IF k > Len(potential_files)
    THEN LoadOutcome(Some("FileNotFoundError"), Null, Null)
    ELSE IF falls_through(dir[k])
         THEN load_from(dir, k + 1)
         ELSE LoadOutcome(Null, Some(potential_files[k]),
                          Some(ensure_crs(loader_func(k, dir[k][1]))))

load_grid_data(dir) == load_from(dir, 1)

LoadInit ==
    /\ PipeOff
    /\ KeyIdle
    /\ AppIdle
    /\ regrid = Null
    /\ processed_dir \in {Some(dir) : dir \in [1..Len(potential_files) -> GridFiles]}
    /\ loaded = Null

\* one call data_loader.load_grid_data()
LoadGridData ==
    /\ pc = "off"
    /\ processed_dir # Null
    /\ loaded = Null
    /\ loaded' = Some(load_grid_data(processed_dir[1]))
    /\ UNCHANGED <<pipeVars, ioVars, keyVars, appVars, outVars, regrid, processed_dir>>

SpecLoad == LoadInit /\ [][LoadGridData]_vars

\* ------------------------------------------------------------------ claims
\* the stages of the two scripts in the order they run
Stages ==
    <<"load_shapefile", "load_excel", "regions", "adjacent", "classify", "match",
      "flag", "export", "plan", "plan_load", "grid_load", "fishnet", "filter", "join",
      "joined", "metadata", "done">>
StageNo(stage) == CHOOSE i \in 1..Len(Stages) : Stages[i] = stage

\* the stage the run is in, or was in when it was aborted
At == IF pc = "aborted" THEN error[1].stage ELSE pc

\* the run has completed the given stage
Past(stage) == pc # "off" /\ StageNo(At) > StageNo(stage)

\* both inputs of 01_explore_districts were loaded in this run
Ran01 == {"gdf_wards", "df_program"} \subseteq bound

AfterRegions == Ran01 /\ Past("regions")
AfterAdjacent == Ran01 /\ Past("adjacent")
AfterClassify == Ran01 /\ Past("classify")
AfterMatch == Ran01 /\ Past("match")
AfterFlag == Ran01 /\ Past("flag")

\* the de-duplicated normalised keys of the rows a mask selected
KeysOfRows(idx) == {LocationKey(df_program[i]) : i \in idx}

\* C1: for the treatment and for the control locations, the matched set and the
\* missing set partition the de-duplicated normalised keys of the location set:
\* their union is the key set and they share no key.
Thm_C1 ==
    AfterMatch =>
        /\ treatment_matches \cup treatment_missing = KeysOfRows(treatment_rows)
        /\ treatment_matches \cap treatment_missing = {}
        /\ control_matches \cup control_missing = KeysOfRows(control_rows)
        /\ control_matches \cap control_missing = {}

Wit_C1 ==
    /\ AfterMatch
    /\ treatment_matches # {}
    /\ treatment_missing # {}

\* C2 (as claimed): a flagged ward whose key is in both the matched-treatment and
\* the matched-control set has is_treatment, not is_program_control, and
\* program_location_type "treatment".
Claim_C2 ==
    AfterFlag =>
        \A i \in 1..Len(gdf_relevant) :
            ward_district_key(gdf_relevant[i]) \in treatment_matches \cap control_matches
                => /\ gdf_relevant[i].is_treatment
                   /\ ~gdf_relevant[i].is_program_control
                   /\ gdf_relevant[i].program_location_type = "treatment"

\* C3 (as claimed): no flagged ward has is_treatment and is_program_control both
\* true.
Claim_C3 ==
    AfterFlag =>
        \A i \in 1..Len(gdf_relevant) :
            ~(gdf_relevant[i].is_treatment /\ gdf_relevant[i].is_program_control)

\* C4 (as claimed): after the centroid join every surviving cell carries the
\* attributes of the ward whose polygon contains the cell's own centroid, and a
\* cell whose centroid lies in no ward has null names and false flags.
Claim_C4 ==
    pc = "joined" =>
        \A p \in 1..Len(parent_grid_filtered) :
            LET c == parent_grid_filtered[p]
                ws == {m \in 1..Len(gdf_utm) :
                          Within(Centroid(c.geometry), gdf_utm[m].geometry)}
            IN  IF ws = {}
                THEN /\ c.ward_name = Null /\ c.district = Null /\ c.region = Null
                     /\ c.is_treatment_ward = Some(FALSE)
                     /\ c.is_program_region = Some(FALSE)
                     /\ c.is_adjacent_region = Some(FALSE)
                ELSE \E m \in ws :
                     /\ c.ward_name = Some(gdf_utm[m].ward_name)
                     /\ c.district = Some(gdf_utm[m].dist_name)
                     /\ c.region = Some(gdf_utm[m].reg_name)
                     /\ c.is_treatment_ward = Some(gdf_utm[m].is_treatment)
                     /\ c.is_program_region = Some(gdf_utm[m].is_program_region)
                     /\ c.is_adjacent_region = Some(gdf_utm[m].is_adjacent_region)

\* C5 (as claimed): a program location is matched exactly when some ward of the
\* boundary dataset has its normalised key, and missing exactly when none has.
Claim_C5 ==
    AfterMatch =>
        LET boundary_keys == {ShapefileKey(gdf_wards[i]) : i \in 1..Len(gdf_wards)}
        IN  /\ \A k \in KeysOfRows(treatment_rows) :
                  /\ k \in treatment_matches <=> k \in boundary_keys
                  /\ k \in treatment_missing <=> k \notin boundary_keys
            /\ \A k \in KeysOfRows(control_rows) :
                  /\ k \in control_matches <=> k \in boundary_keys
                  /\ k \in control_missing <=> k \notin boundary_keys

\* two strings that differ only in letter case or surrounding whitespace: each is
\* blanks, a core, blanks, and the cores agree letter by letter up to case
CasePairs == {<<"a", "A">>, <<"b", "B">>, <<"d", "D">>, <<"e", "E">>}
SameLetter(x, y) == x = y \/ <<x, y>> \in CasePairs \/ <<y, x>> \in CasePairs
AllBlank(s, lo, hi) == \A i \in lo..hi : s[i] = " "
SameUpToCaseAndPadding(s, t) ==
    \E a \in 1..(Len(s) + 1), c \in 1..(Len(t) + 1) :
        \E n \in 0..Len(s) :
            /\ a + n - 1 <= Len(s)
            /\ c + n - 1 <= Len(t)
            /\ AllBlank(s, 1, a - 1) /\ AllBlank(s, a + n, Len(s))
            /\ AllBlank(t, 1, c - 1) /\ AllBlank(t, c + n, Len(t))
            /\ \A i \in 0..(n - 1) : SameLetter(s[a + i], t[c + i])

\* C6: building the key again from an already normalised ward and district, or
\* normalising the key itself, returns the same key; pairs that differ only in case
\* or surrounding whitespace get equal keys; the survey, shapefile and flagging
\* key builders agree.
Thm_C6 ==
    kout # Null =>
        LET k == kout[1]
        IN  /\ k.again_parts = k.survey1
            /\ k.again_whole = k.survey1
            /\ k.shapefile1 = k.survey1
            /\ k.flag1 = k.survey1
            /\ (SameUpToCaseAndPadding(kin.w1, kin.w2)
                  /\ SameUpToCaseAndPadding(kin.d1, kin.d2))
                    => k.survey1 = k.survey2

Wit_C6 ==
    /\ kout # Null
    /\ kin.w1 = <<" ", "a">>
    /\ kin.w2 = <<"A", " ">>
    /\ kin.d1 = <<"d">>
    /\ kin.d2 = <<"D">>
    /\ kout[1].survey1 = <<"A", "|", "|", "D">>
    /\ kout[1].survey2 = kout[1].survey1

\* C7: every survey row is selected by exactly one of the two masks, by the
\* treatment mask iff ARR or REDD is the literal "Yes"; the location lists hold
\* exactly the rows their mask selected.
Thm_C7 ==
    AfterClassify =>
        /\ \A i \in 1..Len(df_program) :
              /\ (i \in treatment_rows) # (i \in control_rows)
              /\ i \in treatment_rows <=>
                    (df_program[i].ARR = "Yes" \/ df_program[i].REDD = "Yes")
        /\ SeqToSet(treatment_locations) =
              {[Ward |-> df_program[i].Ward, District |-> df_program[i].District] :
                  i \in treatment_rows}
        /\ SeqToSet(control_locations) = {df_program[i] : i \in control_rows}

Wit_C7 ==
    /\ AfterClassify
    /\ \E i \in treatment_rows : df_program[i].ARR = NaN /\ df_program[i].REDD = "Yes"
    /\ \E i \in control_rows : df_program[i].ARR = "" /\ df_program[i].REDD = "No"

\* C8 (as claimed): the program regions are exactly the regions that contain a
\* ward matched to a treatment or control location, i.e. a ward whose normalised
\* key is the key of a survey row.
Claim_C8 ==
    AfterMatch =>
        program_regions =
            {gdf_wards[i].reg_name : i \in {j \in 1..Len(gdf_wards) :
                ward_district_key(gdf_wards[j]) \in
                    KeysOfRows(treatment_rows) \cup KeysOfRows(control_rows)}}

\* C8 (amended): the program regions are exactly the regions of the first boundary
\* ward of each district whose dist_name equals, character for character, a value
\* of the survey's District column.
Thm_C8 ==
    AfterRegions =>
        program_regions =
            {gdf_wards[i].reg_name : i \in {j \in 1..Len(gdf_wards) :
                /\ \E k \in 1..Len(df_program) :
                      df_program[k].District = gdf_wards[j].dist_name
                /\ \A h \in 1..(j - 1) : gdf_wards[h].dist_name # gdf_wards[j].dist_name}}

Wit_C8 ==
    /\ AfterMatch
    /\ program_regions # {}
    /\ treatment_matches \cup control_matches = {}
    /\ \E i \in 1..Len(gdf_wards), j \in 1..Len(gdf_wards) :
          /\ gdf_wards[i].dist_name = gdf_wards[j].dist_name
          /\ gdf_wards[i].reg_name \in program_regions
          /\ gdf_wards[j].reg_name \notin program_regions

\* the polygon of a region, and of a set of regions, in the planar system
RegionPoly(rs) ==
    to_crs(UNION {gdf_wards[i].geometry : i \in {j \in 1..Len(gdf_wards) :
                                                    gdf_wards[j].reg_name \in rs}},
           SOURCE_CRS, TARGET_CRS)
AllRegionNames == {gdf_wards[i].reg_name : i \in 1..Len(gdf_wards)}
WithinDistance(P, Q, d) == \E p \in Pts(P), q \in Pts(Q) : Dist2(p, q) <= d * d

\* C9: the adjacent regions are exactly the non-program regions whose polygon
\* lies within buffer_distance of the union of the program-region polygons; no
\* region is both, and every flagged ward has exactly one of is_program_region
\* and is_adjacent_region.
Thm_C9 ==
    /\ AfterAdjacent =>
          /\ adjacent_regions =
                {r \in AllRegionNames \ program_regions :
                    WithinDistance(RegionPoly({r}), RegionPoly(program_regions),
                                   buffer_distance)}
          /\ adjacent_regions \cap program_regions = {}
    /\ AfterFlag =>
          \A i \in 1..Len(gdf_relevant) :
              gdf_relevant[i].is_program_region # gdf_relevant[i].is_adjacent_region

Wit_C9 ==
    /\ AfterFlag
    /\ buffer_distance = 1
    /\ adjacent_regions # {}
    /\ AllRegionNames \ (program_regions \cup adjacent_regions) # {}
    /\ \E i \in 1..Len(gdf_relevant) : gdf_relevant[i].is_adjacent_region
    /\ \E i \in 1..Len(gdf_relevant) : gdf_relevant[i].is_program_region

\* polygons that share boundary points and no area
Touches(P, Q) == Pts(P) \cap Pts(Q) # {} /\ P \cap Q = {}

\* C10: a non-program region whose polygon touches a program region's polygon is
\* adjacent for every buffer distance >= 0, and a non-program region farther than
\* the buffer distance from every program region is not adjacent.
Thm_C10 ==
    AfterAdjacent =>
        \A r \in AllRegionNames \ program_regions :
            /\ (\E t \in program_regions : Touches(RegionPoly({r}), RegionPoly({t})))
                  => r \in adjacent_regions
            /\ (\A t \in program_regions :
                    ~WithinDistance(RegionPoly({r}), RegionPoly({t}), buffer_distance))
                  => r \notin adjacent_regions

Wit_C10 ==
    /\ AfterAdjacent
    /\ buffer_distance = 0
    /\ \E r \in adjacent_regions : \E t \in program_regions :
          /\ Touches(RegionPoly({r}), RegionPoly({t}))
          /\ Cardinality(Pts(RegionPoly({r})) \cap Pts(RegionPoly({t}))) = 1
    /\ \E r \in AllRegionNames \ program_regions : r \notin adjacent_regions

\* C11 (as claimed): the flagged output holds exactly the wards whose region is a
\* program or adjacent region; a ward in it has is_treatment and
\* program_location_type "treatment" iff its key is in the matched-treatment set;
\* a ward whose key is in neither matched set has both flags false and type "none".
Claim_C11 ==
    AfterFlag =>
        /\ [i \in 1..Len(gdf_relevant) |->
               Ward(gdf_relevant[i].ward_name, gdf_relevant[i].dist_name,
                    gdf_relevant[i].reg_name, gdf_relevant[i].geometry)]
             = SelectSeq2(gdf_wards, {i \in 1..Len(gdf_wards) :
                   gdf_wards[i].reg_name \in program_regions \cup adjacent_regions})
        /\ \A i \in 1..Len(gdf_relevant) :
              LET w == gdf_relevant[i]
                  key == ShapefileKey(w)
              IN  /\ (w.is_treatment /\ w.program_location_type = "treatment")
                        <=> key \in treatment_matches
                  /\ key \notin treatment_matches \cup control_matches
                        => /\ ~w.is_treatment
                           /\ ~w.is_program_control
                           /\ w.program_location_type = "none"

\* the fishnet was generated from study_bounds, in either script position
GridMade == study_bounds # Null /\ parent_grid_utm # <<>>

\* ceil(a / b) as the least n with n * b >= a
Ceil(a, b) == CHOOSE n \in 0..a : n * b >= a /\ \A m \in 0..(n - 1) : m * b < a

\* C12: for a bounding rectangle of width W and height H and cell size S the
\* fishnet has exactly ceil(W/S) * ceil(H/S) cells, and every cell is a whole
\* S-by-S square, also where it reaches beyond the rectangle.
Thm_C12 ==
    GridMade =>
        LET b == study_bounds[1]
            S == parent_grid_utm[1].cell_size
        IN  /\ Len(parent_grid_utm) = Ceil(b[3] - b[1], S) * Ceil(b[4] - b[2], S)
            /\ \A p \in 1..Len(parent_grid_utm) :
                  LET g == parent_grid_utm[p].geometry
                      e == Bounds(Pts(g))
                  IN  /\ parent_grid_utm[p].cell_size = S
                      /\ e[3] - e[1] = S
                      /\ e[4] - e[2] = S
                      /\ Cardinality(g) = S * S

Wit_C12 ==
    /\ GridMade
    /\ pc = "off"
    /\ study_bounds[1][3] - study_bounds[1][1] = 3
    /\ study_bounds[1][4] - study_bounds[1][2] = 4
    /\ parent_grid_utm[1].cell_size = 2
    /\ Len(parent_grid_utm) = 4
    /\ \E p \in 1..Len(parent_grid_utm) :
          Bounds(Pts(parent_grid_utm[p].geometry))[3] > study_bounds[1][3]

\* C13: every point of the bounding rectangle lies in at least one cell of the
\* unfiltered fishnet, and no two distinct cells share interior area.
Thm_C13 ==
    GridMade =>
        LET b == study_bounds[1]
        IN  /\ \A x \in b[1]..(b[3] - 1), y \in b[2]..(b[4] - 1) :
                  \E p \in 1..Len(parent_grid_utm) :
                      <<x, y>> \in parent_grid_utm[p].geometry
            /\ \A x \in b[1]..b[3], y \in b[2]..b[4] :
                  \E p \in 1..Len(parent_grid_utm) :
                      <<x, y>> \in Pts(parent_grid_utm[p].geometry)
            /\ \A p \in 1..Len(parent_grid_utm), q \in 1..Len(parent_grid_utm) :
                  p # q => parent_grid_utm[p].geometry \cap parent_grid_utm[q].geometry = {}

Wit_C13 ==
    /\ GridMade
    /\ pc = "off"
    /\ study_bounds[1] = <<1, 0, 4, 3>>
    /\ parent_grid_utm[1].cell_size = 2
    /\ Len(parent_grid_utm) = 4
    /\ \E p \in 1..Len(parent_grid_utm), q \in 1..Len(parent_grid_utm) :
          /\ p # q
          /\ Pts(parent_grid_utm[p].geometry) \cap Pts(parent_grid_utm[q].geometry) # {}

\* the flagged wards of the ward file, in the planar system of the grid
FlaggedWardPolys ==
    {to_crs(wards_file[1][m].geometry, SOURCE_CRS, TARGET_CRS) :
        m \in 1..Len(wards_file[1])}

\* a cell shares at least one point with some flagged ward
MeetsStudyArea(cell) ==
    \E poly \in FlaggedWardPolys : \E pt \in Pts(cell.geometry) : pt \in Pts(poly)

\* C14: the cells kept by the study-area filter are exactly the generated cells
\* whose geometry shares a point with the union of the flagged wards: every kept
\* cell intersects it, every discarded cell does not, and kept cells are unaltered.
Thm_C14 ==
    Past("filter") =>
        /\ {parent_grid_filtered[k].index : k \in 1..Len(parent_grid_filtered)}
              = {parent_grid_utm[p].index : p \in {q \in 1..Len(parent_grid_utm) :
                                                     MeetsStudyArea(parent_grid_utm[q])}}
        /\ \A k \in 1..Len(parent_grid_filtered) :
              LET c == parent_grid_filtered[k]
              IN  /\ parent_grid_utm[c.index + 1].geometry = c.geometry
                  /\ parent_grid_utm[c.index + 1].grid_id = c.grid_id
                  /\ \A h \in 1..(k - 1) : parent_grid_filtered[h].index < c.index

Wit_C14 ==
    /\ Past("filter")
    /\ Len(parent_grid_filtered) < Len(parent_grid_utm)
    /\ \E k \in 1..Len(parent_grid_filtered) :
          /\ MeetsStudyArea(parent_grid_filtered[k])
          /\ \A poly \in FlaggedWardPolys : poly \cap parent_grid_filtered[k].geometry = {}

\* C15 (as claimed): the attribution step completes for every surviving grid, also
\* when a cell's centroid lies inside more than one ward polygon, and the
\* attributed grid then has exactly one row per surviving cell.
Claim_C15 ==
    (pc # "off" /\ At \in {"join", "joined"} /\ pc # "join") =>
        /\ pc = "joined"
        /\ Len(parent_grid_filtered)
              = Cardinality({c \in SeqToSet(parent_grid_utm) :
                                Intersects(Pts(study_area_utm), Pts(c.geometry))})
        /\ \A p \in 1..Len(parent_grid_filtered), q \in 1..Len(parent_grid_filtered) :
              parent_grid_filtered[p].grid_id = parent_grid_filtered[q].grid_id => p = q

\* the (village_name, ward_name) keys of a list of records, one per record
KeyAt(rows, i) == <<rows[i].village_name, rows[i].ward_name>>

\* C16 (as claimed): the worksheet never holds two records with the same
\* (village_name, ward_name), whatever the sessions draw, save, delete or refresh.
Claim_C16 ==
    \A i \in 1..Len(sheet), j \in 1..Len(sheet) :
        KeyAt(sheet, i) = KeyAt(sheet, j) => i = j

\* the stages that load a required input file, whether the file is absent, and
\* the path the script looks for
LoadStages == {"load_shapefile", "load_excel", "plan_load", "grid_load"}
InputMissing(stage) ==
    CASE stage = "load_shapefile" -> shp_file = Null
      [] stage = "load_excel" -> excel_file = Null
      [] stage = "plan_load" -> region_plan_file = Null
      [] stage = "grid_load" -> wards_file = Null
PathOf(stage) ==
    CASE stage = "load_shapefile" -> "ALL WARDS TANZANIA"
      [] stage = "load_excel" -> "VillageBoundaries_HHsurvey Updated_Sept.22.xlsx"
      [] stage = "plan_load" -> "region_coverage_plan.json"
      [] stage = "grid_load" -> "relevant_wards_with_flags.geojson"

\* C17 (as claimed): once a run has gone through the stage that loads a missing
\* input file (the shapefile or the spreadsheet in 01_explore_districts, the plan
\* or the flagged ward file in 02_create_grids), it is aborted at that stage with
\* an error naming the missing path, it has entered no later stage, and it has
\* written no output file.
Claim_C17 ==
    \A stage \in LoadStages :
        (/\ pc \notin {"off", stage}
         /\ StageNo(At) >= StageNo(stage)
         /\ stage \in {"load_shapefile", "load_excel"} => StageNo(At) <= StageNo("plan")
         /\ InputMissing(stage))
            => /\ pc = "aborted"
               /\ error[1].stage = stage
               /\ error[1].path = PathOf(stage)
               /\ stage \in {"load_shapefile", "load_excel"}
                     => wards_file = Null /\ region_plan_file = Null
               /\ parent_grid_utm = <<>>

\* C18 (as claimed): a run that found zero program regions is stopped in the
\* adjacency stage: it produces no adjacent set, no flagged-ward file and no grid.
Claim_C18 ==
    (AfterRegions /\ program_regions = {}) =>
        /\ pc = "adjacent" \/ (pc = "aborted" /\ error[1].stage = "adjacent")
        /\ wards_file = Null
        /\ parent_grid_utm = <<>>

\* the coverage plan this run of 01_explore_districts has written
PlanWritten == Ran01 /\ Past("plan")

\* 'WARD in DISTRICT' for a survey row
InWords(row) ==
    UpperStr(Strip(row.Ward)) \o <<" ", "i", "n", " ">> \o UpperStr(Strip(row.District))

Thm_C20 ==
    PlanWritten =>
        LET pl == region_plan_file[1].program_locations
            n_treatment == Cardinality({[Ward |-> df_program[i].Ward,
                                         District |-> df_program[i].District] :
                                            i \in treatment_rows})
            n_control == Cardinality({df_program[i] : i \in control_rows})
        IN  /\ pl.treatment_match_rate[2] # 0
            /\ pl.control_match_rate[2] # 0
            /\ pl.total_treatment_locations = n_treatment
            /\ pl.total_control_locations = n_control
            /\ pl.treatment_match_rate =
                  IF treatment_rows = {} THEN <<0, 1>>
                  ELSE <<Cardinality(treatment_matches), n_treatment>>
            /\ pl.control_match_rate =
                  IF control_rows = {} THEN <<0, 1>>
                  ELSE <<Cardinality(control_matches), n_control>>

Wit_C20 ==
    /\ PlanWritten
    /\ control_rows = {}
    /\ region_plan_file[1].program_locations.control_match_rate = <<0, 1>>
    /\ region_plan_file[1].program_locations.treatment_match_rate = <<1, 2>>

\* C21 (as claimed): the plan's total_treatment_locations and
\* total_control_locations are the numbers of distinct normalised keys of the
\* treatment and of the control rows, so each match rate lies in [0,1] and, for a
\* class with at least one location, is 1 exactly when its missing list is empty.
Claim_C21 ==
    PlanWritten =>
        LET pl == region_plan_file[1].program_locations
        IN  /\ pl.total_treatment_locations = Cardinality(KeysOfRows(treatment_rows))
            /\ pl.total_control_locations = Cardinality(KeysOfRows(control_rows))
            /\ pl.treatment_match_rate[1] <= pl.treatment_match_rate[2]
            /\ pl.control_match_rate[1] <= pl.control_match_rate[2]
            /\ treatment_rows # {} =>
                  (pl.treatment_match_rate[1] = pl.treatment_match_rate[2]
                      <=> pl.missing_treatment_wards = {})
            /\ control_rows # {} =>
                  (pl.control_match_rate[1] = pl.control_match_rate[2]
                      <=> pl.missing_control_wards = {})

\* a run of both scripts on two wards: the first, in one region, is a square two
\* cells wide whose key matched a treatment row; the second, in another region,
\* shares a boundary edge with it; the grid attributes were assigned
EndToEnd ==
    /\ Ran01
    /\ Past("join")
    /\ pc # "aborted"
    /\ Len(gdf_wards) = 2
    /\ LET A == gdf_wards[1]
           B == gdf_wards[2]
           e == Bounds(Pts(A.geometry))
       IN  /\ A.reg_name # B.reg_name
           /\ ShapefileKey(A) \in treatment_matches
           /\ e[3] - e[1] = 2 * GRID_SIZE_LARGE
           /\ A.geometry = Block(e[1], e[2], e[3] - e[1], e[3] - e[1])
           /\ A.geometry \cap B.geometry = {}
           /\ Cardinality(Pts(A.geometry) \cap Pts(B.geometry)) >= 2

\* the cells attributed to the ward of that name and flagged as treatment cells
TreatmentCellsOf(name) ==
    {p \in 1..Len(parent_grid_filtered) :
        /\ parent_grid_filtered[p].ward_name = Some(name)
        /\ parent_grid_filtered[p].is_treatment_ward = Some(TRUE)}

\* C22 (as claimed): in such a run, with a cell size of half ward A's width, A's
\* region is a program region, the other ward's region is an adjacent region,
\* ward A is flagged is_treatment, and at least 4 grid cells carry ward A's name
\* with is_treatment_ward true.
Claim_C22 ==
    EndToEnd =>
        /\ gdf_wards[1].reg_name \in program_regions
        /\ gdf_wards[2].reg_name \in adjacent_regions
        /\ \E i \in 1..Len(wards_file[1]) :
              /\ wards_file[1][i].ward_name = gdf_wards[1].ward_name
              /\ wards_file[1][i].is_treatment
        /\ Cardinality(TreatmentCellsOf(gdf_wards[1].ward_name)) >= 4

\* the number a string of decimal digits stands for
DigitOf(c) == CHOOSE n \in 0..9 : Digit(n) = c
RECURSIVE DigitsValue(_)
DigitsValue(s) ==
    IF s = <<>> THEN 0
    ELSE 10 * DigitsValue(SubSeq(s, 1, Len(s) - 1)) + DigitOf(s[Len(s)])

\* C23: create_fishnet_grid is deterministic and anchored at the minimum corner:
\* a second call with the same bounds and cell size returns the same cells; the
\* cell with grid coordinates (col, row) has its lower-left corner at
\* (minx + col*S, miny + row*S); its grid_id is "G_", col in four digits, "_", row
\* in four digits, for the col and row of the same record; no two cells share a
\* grid_id.
Thm_C23 ==
    GridMade =>
        LET b == study_bounds[1]
            S == parent_grid_utm[1].cell_size
        IN  /\ regrid # Null => regrid[1] = parent_grid_utm
            /\ \A p \in 1..Len(parent_grid_utm) :
                  LET c == parent_grid_utm[p]
                      e == Bounds(Pts(c.geometry))
                  IN  /\ e[1] = b[1] + c.col * S
                      /\ e[2] = b[2] + c.row * S
                      /\ Len(c.grid_id) = 11
                      /\ c.grid_id[1] = "G"
                      /\ c.grid_id[2] = "_"
                      /\ c.grid_id[7] = "_"
                      /\ DigitsValue(SubSeq(c.grid_id, 3, 6)) = c.col
                      /\ DigitsValue(SubSeq(c.grid_id, 8, 11)) = c.row
            /\ \A p \in 1..Len(parent_grid_utm), q \in 1..Len(parent_grid_utm) :
                  parent_grid_utm[p].grid_id = parent_grid_utm[q].grid_id => p = q

Wit_C23 ==
    /\ GridMade
    /\ pc = "off"
    /\ regrid # Null
    /\ study_bounds[1] = <<1, 1, 5, 4>>
    /\ Len(regrid[1]) = 4
    /\ \E p \in 1..Len(parent_grid_utm) :
          /\ parent_grid_utm[p].col = 1
          /\ parent_grid_utm[p].row = 1
          /\ parent_grid_utm[p].grid_id =
                <<"G", "_", "0", "0", "0", "1", "_", "0", "0", "0", "1">>
          /\ Bounds(Pts(parent_grid_utm[p].geometry)) = <<3, 3, 5, 5>>

\* the (village_name, ward_name) keys of a list of records
KeySet(rows) == {KeyAt(rows, i) : i \in 1..Len(rows)}

\* in this step session s returns from a save or delete call with success
ReturnsSuccess(s) ==
    /\ sessions[s].call \in {"save", "delete"}
    /\ sessions'[s].call = "idle"
    /\ sessions'[s].result # Null
    /\ sessions'[s].result[1].ok

\* C24 (as claimed): whenever a session's save or delete returns success, the keys
\* of that session's annotation list are then exactly the keys of the rows of the
\* worksheet, also when another session wrote to the worksheet in between.
Claim_C24 ==
    [][\A s \in Sessions :
          ReturnsSuccess(s) => KeySet(sessions'[s].annotations) = KeySet(sheet')]_vars

\* the written cells whose flag column holds True
WrittenWith(col) == {p \in 1..Len(parquet_file[1]) : parquet_file[1][p][col] = Some(TRUE)}

\* C25: the metadata summary agrees with the grid file written beside it:
\* total_cells is the number of cells written, each coverage count is the number
\* of written cells whose flag is true, and the program-region and adjacent-region
\* counts together do not exceed total_cells.
Thm_C25 ==
    metadata_file # Null =>
        /\ parquet_file # Null
        /\ LET info == metadata_file[1].grid_info
               coverage == metadata_file[1].coverage
           IN  /\ info.total_cells = Len(parquet_file[1])
               /\ coverage.cells_in_treatment_wards
                     = Cardinality(WrittenWith("is_treatment_ward"))
               /\ coverage.cells_in_program_regions
                     = Cardinality(WrittenWith("is_program_region"))
               /\ coverage.cells_in_adjacent_regions
                     = Cardinality(WrittenWith("is_adjacent_region"))
               /\ coverage.cells_in_program_regions + coverage.cells_in_adjacent_regions
                     <= info.total_cells

Wit_C25 ==
    /\ metadata_file # Null
    /\ pc = "done"
    /\ Len(parquet_file[1]) < Len(parent_grid_utm)
    /\ metadata_file[1].coverage.cells_in_treatment_wards >= 1
    /\ metadata_file[1].coverage.cells_in_adjacent_regions >= 1
    /\ metadata_file[1].coverage.cells_in_program_regions
          > metadata_file[1].coverage.cells_in_treatment_wards
    /\ \E p \in 1..Len(parquet_file[1]) : parquet_file[1][p].is_program_region = Null

\* C26 (as claimed): a record that a successful save has put into the worksheet
\* stays there until a delete for its (village_name, ward_name) is performed: a
\* step in which an annotation record's key leaves the worksheet is the update
\* step of a delete of that key, under every interleaving of the sessions' reads
\* and updates.
Claim_C26 ==
    [][\A i \in 1..Len(sheet) :
          (sheet[i].geometry # <<>> /\ KeyAt(sheet, i) \notin KeySet(sheet'))
              => \E s \in Sessions :
                    /\ sessions[s].call = "delete"
                    /\ sessions[s].target = Some(KeyAt(sheet, i))
                    /\ sessions'[s].call = "idle"]_vars

\* in this step a call of save_annotation_to_sheet by session s ends in failure:
\* the step changed the session and left a failed save as its result
SaveFails(s) ==
    /\ sessions'[s] # sessions[s]
    /\ sessions'[s].result # Null
    /\ sessions'[s].result[1].fn = "save_annotation_to_sheet"
    /\ ~sessions'[s].result[1].ok

\* C27: a save that fails returns (False, message) and leaves the session's
\* annotation list, its pending annotation and the worksheet as they were; every
\* save call that ends returns success or failure; and a pending annotation is
\* removed only by a successful save, by a local save in offline mode, or by
\* Discard / Clear Pending.
Thm_C27 ==
    [][\A s \in Sessions :
          /\ sessions[s].call = "save" /\ sessions'[s].call = "idle"
                => /\ sessions'[s].result # Null
                   /\ sessions'[s].result[1].fn = "save_annotation_to_sheet"
                   /\ sessions'[s].result[1].ok =>
                         /\ sessions'[s].result[1].message = "Saved successfully"
                         /\ sessions'[s].annotations =
                               Append(sessions[s].annotations, sessions[s].pending[1])
          /\ SaveFails(s)
                => /\ sessions'[s].result[1].message # ""
                   /\ sessions'[s].annotations = sessions[s].annotations
                   /\ sessions'[s].pending = sessions[s].pending
                   /\ sessions'[s].pending # Null
                   /\ sheet' = sheet
          /\ (sessions[s].pending # Null /\ sessions'[s].pending = Null)
                => \/ /\ sessions[s].call = "save"
                      /\ sessions'[s].result # Null
                      /\ sessions'[s].result[1].ok
                   \/ /\ ~sessions[s].sheets_available
                      /\ sessions'[s].annotations =
                            Append(sessions[s].annotations, sessions[s].pending[1])
                      /\ sheet' = sheet
                   \/ /\ sessions[s].call = "idle"
                      /\ sessions'[s].result = Null
                      /\ sessions'[s].annotations = sessions[s].annotations
                      /\ sheet' = sheet]_vars

Wit_C27 ==
    /\ sessions # <<>>
    /\ sessions["s1"].result = Returned("save_annotation_to_sheet", FALSE, "Error")
    /\ sessions["s1"].call = "idle"
    /\ sessions["s1"].pending = Some(Annotation("v2", "w1"))
    /\ sessions["s1"].annotations = <<Annotation("v1", "w1")>>
    /\ sheet = <<SheetRow(Annotation("v1", "w1"))>>

\* the records of a list whose key is not k, in their order
OtherThan(rows, k) == SelectSeq2(rows, {i \in 1..Len(rows) : KeyAt(rows, i) # k})

PendingKey(s) ==
    <<sessions[s].pending[1].village_name, sessions[s].pending[1].ward_name>>

\* in this step session s's Save appends its pending annotation to its list
SaveAppends(s) ==
    /\ sessions[s].pending # Null
    /\ sessions'[s].pending = Null
    /\ sessions'[s].annotations = Append(sessions[s].annotations, sessions[s].pending[1])

\* in this step session s presses "Save to Database"
SavePressed(s) ==
    /\ sessions[s].call = "idle"
    /\ sessions[s].pending # Null
    /\ \/ sessions'[s].call = "save"
       \/ SaveAppends(s)
       \/ /\ sessions'[s].result # Null
          /\ sessions'[s].result[1].fn = "save_annotation_to_sheet"
          /\ sessions'[s].result # sessions[s].result

\* a pending annotation names a village of a specific ward
PendingIsSpecific(s) ==
    sessions'[s].pending # Null =>
        /\ sessions'[s].pending[1].ward_name # AllWards
        /\ sessions'[s].pending[1].village_name
              \in filter_villages_for_ward(sessions'[s].pending[1].ward_name)

\* C29 (as claimed): a pending annotation exists only for a specific village of a
\* specific ward, Save is pressed only while the session list holds no record of
\* the pending key, and within one session Save appends a record to the list at
\* most once per key.
Claim_C29 ==
    [][\A s \in Sessions :
          /\ PendingIsSpecific(s)
          /\ SavePressed(s) => PendingKey(s) \notin KeySet(sessions[s].annotations)
          /\ (SaveAppends(s) /\ sessions[s].appended # Null)
                => PendingKey(s) \notin sessions[s].appended[1]]_vars

\* what the guard of Save does give: every append by Save adds a key the list
\* does not hold at that moment, so Save never puts a second record of a key
\* next to one the list still holds
GuardedAppend ==
    [][\A s \in Sessions :
          SaveAppends(s)
             => /\ PendingKey(s) \notin KeySet(sessions[s].annotations)
                /\ Cardinality({i \in 1..Len(sessions'[s].annotations) :
                       KeyAt(sessions'[s].annotations, i) = PendingKey(s)}) = 1]_vars

\* the k-th grid file exists and its loader reads it
Loadable(k) == processed_dir[1][k] # Null /\ processed_dir[1][k][1].readable

\* C30: load_grid_data returns the first of parquet, geojson, shp that exists and
\* loads, skipping names that are absent or whose load raises; it raises
\* FileNotFoundError exactly when none loads; a returned grid has CRS EPSG:4326,
\* reprojected from the CRS its frame carried, or labelled when it carried none.
Thm_C30 ==
    loaded # Null =>
        LET out == loaded[1]
            names == 1..Len(potential_files)
        IN  /\ out.error \in {Null, Some("FileNotFoundError")}
            /\ out.error # Null <=> \A k \in names : ~Loadable(k)
            /\ out.error = Null =>
                 \E k \in names :
                    /\ Loadable(k)
                    /\ \A j \in 1..(k - 1) : ~Loadable(j)
                    /\ out.filename = Some(potential_files[k])
                    /\ out.gdf[1].crs = Some(EPSG_4326)
                    /\ LET file == processed_dir[1][k][1]
                       IN  out.gdf[1].geometry =
                              IF k = 1 \/ file.crs = Null THEN file.geometry
                              ELSE to_crs(file.geometry, file.crs[1], EPSG_4326)

\* the parquet file exists but does not load, the geojson file loads in the
\* metric CRS and is returned reprojected
Wit_C30 ==
    /\ loaded # Null
    /\ processed_dir[1][1] # Null /\ ~processed_dir[1][1][1].readable
    /\ processed_dir[1][2] = Some([readable |-> TRUE, crs |-> Some(TARGET_CRS),
                                   geometry |-> GridShape])
    /\ loaded[1] = LoadOutcome(Null, Some("grid_500m_parent.geojson"),
                               Some([crs |-> Some(EPSG_4326),
                                     geometry |-> Block(0, 0, 2, 1)]))

====
